---- MODULE Spec2Model ----
(***************************************************************************)
(* Query classification and match scoring of the graduate-admissions       *)
(* assistant (app/agents).  Texts are sequences of one-character strings,  *)
(* so that lower(), split(), strip() and the substring test `a in b` are   *)
(* computed as Python computes them.  Scores are exact multiples of        *)
(* 1/Unit; floating-point rounding is not modelled.                        *)
(***************************************************************************)
EXTENDS Integers, Sequences, FiniteSets, TLC

VARIABLES
    query,           \* the query text handed to the operation
    user_context,    \* caller context: the research_interests list
    faculty_list,    \* faculty candidates handed to a faculty scorer
    program_list,    \* program candidates handed to a program scorer
    op,              \* which operation has run ("idle" before any)
    label,           \* query type returned by a keyword classifier
    classify_result, \* dict returned by ChatAgent.classify_query
    query_info,      \* dict returned by _extract_keywords
    scored,          \* list returned by a scorer
    site,            \* which fan-out function is running its fetches
    tasks,           \* what each started fetch produces when it finishes
    results,         \* the list asyncio.gather is filling, one slot per task
    completion_order,\* task indices in the order the fetches finished
    combined_data,   \* what the aggregation loop returned
    fetch_pc,        \* "gathering" until the aggregation loop has run
    self_session,    \* RealDataAIAgent.session of the one shared agent
    session_state,   \* of the ClientSession each query opens
    query_pc,        \* where each process_query call stands
    urls_left,       \* pages a query has still to request
    in_flight,       \* the session a query's pending request went out on
    fetched,         \* per query, the session behind each page it got
    failing,         \* the steps that raise while this call is served
    llm_available,   \* is an LLM client / model configured
    llm_content,     \* the text the LLM returns when its call succeeds
    daily_token_usage, \* CostEffectiveLLMManager.daily_token_usage
    history,         \* rows the search history holds for the query
    payload,         \* what the call returned
    degree_preferences, \* caller context: the degree_preferences list
    extracted,       \* per extractor, the criteria its last call returned
    calls,           \* per extractor, how often it has been called
    api_request,     \* the chat request: message, credentials, session_id
    workflow_instance, \* is the global _workflow_instance set
    db_sessions,     \* session ids of the stored chat sessions
    db_messages,     \* the stored chat messages
    agent_calls,     \* how often the agent or workflow was invoked
    status_code,     \* status of the HTTP response, 0 before it is sent
    served_by,       \* which chat_query handler served the request
    redis_key,       \* the Redis value of rate_limit:<ip>, <<>> when the key is absent
    request_pc,      \* where each request from the IP stands in dispatch
    current_requests,  \* per request, what its GET returned
    passed_on,       \* requests passed to the application in this window
    expiries,        \* how often the key has expired
    job_target,      \* per picked-up scrape job, the university it names
    job_pc,          \* where each _process_university_job stands
    job_status,      \* the status field of each scrape_jobs document
    status_log,      \* per job, the statuses its document has held
    existing,        \* per job, what the query of _save_faculty returned
    permits,         \* free slots of the semaphore
    faculty_collection,    \* the documents of the faculty collection
    scraping_returned, \* has _run_university_scraping returned
    search_history,  \* the rows of the search_history table, oldest first
    web_fetches,     \* how often _fetch_real_data has run
    saved_queries,   \* queries for which a call has saved a faculty row
    last_call,       \* what the latest process_query call did and returned
    llm_call_pc,     \* where each generate_response call stands
    llm_call_result, \* per call, what it returned
    clock,           \* time.time(), in ticks
    request_history,  \* BaseScraper.request_history, domain to time
    scraper_pc,      \* where the current fetch_url call stands
    pending,         \* domain, current_time and wake-up time of the call in rate_limit
    request_starts,  \* per domain, when each request to it was started
    fetch_calls,     \* fetch_url calls made so far
    hiring_signals,  \* the hiring_signals documents, oldest first
    signal_batch,    \* the signals of the current run still to be matched
    signal_run_pc,   \* is a _process_hiring_signals run under way
    faculty_hiring,  \* hiring_status and hiring_indicators of the stored faculty
    user_query,      \* WorkflowState["user_query"]
    query_classification,  \* WorkflowState["query_classification"]
    next_action,     \* WorkflowState["next_action"]
    routed,          \* what _route_query returned, once it has run
    node,            \* the node of the compiled graph the query is at
    agent_type,      \* WorkflowState["agent_type"], once an agent set it
    state_sources,   \* len(WorkflowState["sources"])
    workflow_result  \* agent_type of the dict process_query returned

coreVars == <<query, user_context, faculty_list, program_list, op, label,
              classify_result, query_info, scored>>

fetchVars == <<site, tasks, results, completion_order, combined_data, fetch_pc>>

sessionVars == <<self_session, session_state, query_pc, urls_left, in_flight,
                 fetched>>

pipelineVars == <<failing, llm_available, llm_content, daily_token_usage,
                  history, payload>>

extractVars == <<degree_preferences, extracted, calls>>

apiVars == <<api_request, workflow_instance, db_sessions, db_messages,
             agent_calls, status_code, served_by>>

rateVars == <<redis_key, request_pc, current_requests, passed_on, expiries>>

jobVars == <<job_target, job_pc, job_status, status_log, existing, permits, faculty_collection, scraping_returned>>

historyVars == <<search_history, web_fetches, saved_queries, last_call>>

tokenVars == <<llm_call_pc, llm_call_result>>

scrapeVars == <<clock, request_history, scraper_pc, pending, request_starts, fetch_calls>>

signalVars == <<hiring_signals, signal_batch, signal_run_pc, faculty_hiring>>

workflowVars == <<user_query, query_classification, next_action, routed, node,
                 agent_type, state_sources, workflow_result>>

serviceVars == <<apiVars,
                rateVars,
                jobVars,
                historyVars,
                tokenVars,
                scrapeVars,
                signalVars,
                workflowVars>>

vars == <<coreVars, fetchVars, sessionVars, pipelineVars, extractVars,
          serviceVars>>

\* no fan-out is in progress
FetchIdle ==
    /\ site = "none"
    /\ tasks = <<>>
    /\ results = <<>>
    /\ completion_order = <<>>
    /\ combined_data = <<>>
    /\ fetch_pc = "idle"

\* no query has reached the shared agent
SessionIdle ==
    /\ self_session = <<>>
    /\ session_state = <<>>
    /\ query_pc = <<>>
    /\ urls_left = <<>>
    /\ in_flight = <<>>
    /\ fetched = <<>>

\* no call is being served
PipelineIdle ==
    /\ failing = {}
    /\ llm_available = FALSE
    /\ llm_content = <<>>
    /\ daily_token_usage = 0
    /\ history = <<>>
    /\ payload = <<>>

\* no criteria have been extracted
ExtractIdle ==
    /\ degree_preferences = <<>>
    /\ extracted = <<>>
    /\ calls = <<>>

\* no chat request has been received
ApiIdle ==
    /\ api_request = <<>>
    /\ workflow_instance = FALSE
    /\ db_sessions = {}
    /\ db_messages = <<>>
    /\ agent_calls = 0
    /\ status_code = 0
    /\ served_by = "none"

\* no request has reached the rate limiter
RateIdle ==
    /\ redis_key = <<>>
    /\ request_pc = <<>>
    /\ current_requests = <<>>
    /\ passed_on = 0
    /\ expiries = 0

\* no scrape job has been picked up
JobIdle ==
    /\ job_target = <<>>
    /\ job_pc = <<>>
    /\ job_status = <<>>
    /\ status_log = <<>>
    /\ existing = <<>>
    /\ permits = 0
    /\ faculty_collection = <<>>
    /\ scraping_returned = FALSE

\* the search history database has not been used
HistoryIdle ==
    /\ search_history = <<>>
    /\ web_fetches = 0
    /\ saved_queries = {}
    /\ last_call = <<>>

\* no generate_response call is in progress
TokenIdle ==
    /\ llm_call_pc = <<>>
    /\ llm_call_result = <<>>

\* no scraper has been constructed
ScrapeIdle ==
    /\ clock = 0
    /\ request_history = <<>>
    /\ scraper_pc = "none"
    /\ pending = <<>>
    /\ request_starts = <<>>
    /\ fetch_calls = 0

\* no hiring signal is stored
SignalIdle ==
    /\ hiring_signals = <<>>
    /\ signal_batch = <<>>
    /\ signal_run_pc = "none"
    /\ faculty_hiring = <<>>

\* no query is in the LangGraph workflow
WorkflowIdle ==
    /\ user_query = <<>>
    /\ query_classification = <<>>
    /\ next_action = <<>>
    /\ routed = <<>>
    /\ node = "START"
    /\ agent_type = <<>>
    /\ state_sources = 0
    /\ workflow_result = <<>>

ServiceIdle ==
    /\ ApiIdle
    /\ RateIdle
    /\ JobIdle
    /\ HistoryIdle
    /\ TokenIdle
    /\ ScrapeIdle
    /\ SignalIdle
    /\ WorkflowIdle

\* everything outside the classification and scoring operations
otherVars == <<fetchVars, sessionVars, pipelineVars, extractVars, serviceVars>>

notFetchVars == <<coreVars, sessionVars, pipelineVars, extractVars,
                  serviceVars>>

notSessionVars == <<coreVars, fetchVars, pipelineVars, extractVars,
                    serviceVars>>

(* ---------------------------- bounds ---------------------------------- *)
MaxWords == 3   \* words in a generated query
MaxCands == 3   \* candidates in a generated ranking input

(* ------------------------- text primitives ---------------------------- *)
UpperAlpha == <<"A","B","C","D","E","F","G","H","I","J","K","L","M",
                "N","O","P","Q","R","S","T","U","V","W","X","Y","Z">>
LowerAlpha == <<"a","b","c","d","e","f","g","h","i","j","k","l","m",
                "n","o","p","q","r","s","t","u","v","w","x","y","z">>
Whitespace == {" ", "\n", "\t"}

LowerChar(c) ==
    IF \E k \in 1..26 : UpperAlpha[k] = c
    THEN LowerAlpha[CHOOSE k \in 1..26 : UpperAlpha[k] = c]
    ELSE c

\* str.lower()
Lower(s) == [i \in 1..Len(s) |-> LowerChar(s[i])]

\* the Python test `needle in hay` on strings
Contains(needle, hay) ==
    \E i \in 1..(Len(hay) - Len(needle) + 1) :
        SubSeq(hay, i, i + Len(needle) - 1) = needle

\* any(keyword in text for keyword in keywords)
AnyIn(keywords, text) ==
    \E k \in 1..Len(keywords) : Contains(keywords[k], text)

\* sum(1 for keyword in keywords if keyword in text)
CountIn(keywords, text) ==
    Cardinality({k \in 1..Len(keywords) : Contains(keywords[k], text)})

RECURSIVE SplitFrom(_, _, _, _)
SplitFrom(s, i, cur, acc) ==
    IF i > Len(s)
    THEN IF cur = <<>> THEN acc ELSE Append(acc, cur)
    ELSE IF s[i] \in Whitespace
         THEN SplitFrom(s, i + 1, <<>>,
                        IF cur = <<>> THEN acc ELSE Append(acc, cur))
         ELSE SplitFrom(s, i + 1, Append(cur, s[i]), acc)

\* str.split(): the maximal runs of non-whitespace characters
Split(s) == SplitFrom(s, 1, <<>>, <<>>)

RECURSIVE LStrip(_)
LStrip(s) ==
    IF s # <<>> /\ s[1] \in Whitespace THEN LStrip(Tail(s)) ELSE s

RECURSIVE RStrip(_)
RStrip(s) ==
    IF s # <<>> /\ s[Len(s)] \in Whitespace
    THEN RStrip(SubSeq(s, 1, Len(s) - 1))
    ELSE s

\* str.strip()
Strip(s) == RStrip(LStrip(s))

\* s.split('\n')[0]
FirstLine(s) ==
    IF \E i \in 1..Len(s) : s[i] = "\n"
    THEN SubSeq(s, 1, (CHOOSE i \in 1..Len(s) :
                          s[i] = "\n" /\ \A j \in 1..(i - 1) : s[j] # "\n") - 1)
    ELSE s

RECURSIVE JoinWords(_)
\* " ".join(words)
JoinWords(ws) ==
    IF ws = <<>> THEN <<>>
    ELSE IF Len(ws) = 1 THEN ws[1]
    ELSE ws[1] \o <<" ">> \o JoinWords(Tail(ws))

faculty_keywords ==
    << <<"p","r","o","f","e","s","s","o","r">>,  \* 'professor'
       <<"f","a","c","u","l","t","y">>,  \* 'faculty'
       <<"a","d","v","i","s","o","r">>,  \* 'advisor'
       <<"s","u","p","e","r","v","i","s","o","r">>,  \* 'supervisor'
       <<"h","i","r","i","n","g">>,  \* 'hiring'
       <<"r","e","c","r","u","i","t","i","n","g">>  \* 'recruiting'
    >>

program_keywords ==
    << <<"p","r","o","g","r","a","m">>,  \* 'program'
       <<"d","e","g","r","e","e">>,  \* 'degree'
       <<"p","h","d">>,  \* 'phd'
       <<"m","a","s","t","e","r","s">>,  \* 'masters'
       <<"r","e","q","u","i","r","e","m","e","n","t","s">>,  \* 'requirements'
       <<"d","e","a","d","l","i","n","e">>  \* 'deadline'
    >>

intent_faculty_words ==
    << <<"p","r","o","f","e","s","s","o","r">>,  \* 'professor'
       <<"f","a","c","u","l","t","y">>,  \* 'faculty'
       <<"a","d","v","i","s","o","r">>,  \* 'advisor'
       <<"h","i","r","i","n","g">>  \* 'hiring'
    >>

intent_program_words ==
    << <<"p","r","o","g","r","a","m">>,  \* 'program'
       <<"d","e","g","r","e","e">>,  \* 'degree'
       <<"a","d","m","i","s","s","i","o","n">>  \* 'admission'
    >>

intent_deadline_words ==
    << <<"d","e","a","d","l","i","n","e">>,  \* 'deadline'
       <<"a","p","p","l","i","c","a","t","i","o","n">>  \* 'application'
    >>

QueryWords ==
    << <<"p","r","o","f","e","s","s","o","r">>,  \* 'professor'
       <<"F","a","c","u","l","t","y">>,  \* 'Faculty'
       <<"h","i","r","i","n","g">>,  \* 'hiring'
       <<"P","h","D">>,  \* 'PhD'
       <<"p","r","o","g","r","a","m","s">>,  \* 'programs'
       <<"d","e","a","d","l","i","n","e">>,  \* 'deadline'
       <<"h","e","l","l","o">>,  \* 'hello'
       <<"a","d","v","i","s","o","r">>  \* 'advisor'
    >>

LLMReplies ==
    << <<"f","a","c","u","l","t","y","_","s","e","a","r","c","h">>,  \* 'faculty_search'
       <<"P","r","o","g","r","a","m","_","S","e","a","r","c","h","\n","a","s","k","s"," ","a","b","o","u","t"," ","a"," ","d","e","g","r","e","e">>,  \* 'Program_Search\nasks about a degree'
       <<"r","e","s","e","a","r","c","h","_","a","n","a","l","y","s","i","s">>,  \* 'research_analysis'
       <<" ","g","e","n","e","r","a","l","_","c","h","a","t"," ">>,  \* ' general_chat '
       <<"f","a","c","u","l","t","y","_","s","e","a","r","c","h"," ","-"," ","l","o","o","k","i","n","g"," ","f","o","r"," ","p","r","o","f","e","s","s","o","r","s">>,  \* 'faculty_search - looking for professors'
       <<"m","i","x","e","d">>,  \* 'mixed'
       <<>>  \* ''
    >>

kw_funding == <<"f","u","n","d","i","n","g">>  \* 'funding'

kw_gre == <<"g","r","e">>  \* 'gre'

kw_no_gre == <<"n","o"," ","g","r","e">>  \* 'no gre'

ScoreQueries ==
    << <<"r","o","b","o","t","i","c","s"," ","p","r","o","f","e","s","s","o","r","s">>,  \* 'robotics professors'
       <<"D","e","e","p"," ","L","e","a","r","n","i","n","g"," ","f","u","n","d","i","n","g">>,  \* 'Deep Learning funding'
       <<"n","o"," ","g","r","e"," ","p","r","o","g","r","a","m","s">>,  \* 'no gre programs'
       <<"f","i","n","d"," ","p","r","o","f","e","s","s","o","r","s">>  \* 'find professors'
    >>

MachineLearning == <<"M","a","c","h","i","n","e"," ","L","e","a","r","n","i","n","g">>  \* 'Machine Learning'

robotics == <<"r","o","b","o","t","i","c","s">>  \* 'robotics'
faculty_search == <<"f","a","c","u","l","t","y","_","s","e","a","r","c","h">>  \* 'faculty_search'

program_search == <<"p","r","o","g","r","a","m","_","s","e","a","r","c","h">>  \* 'program_search'

research_analysis == <<"r","e","s","e","a","r","c","h","_","a","n","a","l","y","s","i","s">>  \* 'research_analysis'

application_info == <<"a","p","p","l","i","c","a","t","i","o","n","_","i","n","f","o">>  \* 'application_info'

general_chat == <<"g","e","n","e","r","a","l","_","c","h","a","t">>  \* 'general_chat'

mixed == <<"m","i","x","e","d">>  \* 'mixed'

general_info == <<"g","e","n","e","r","a","l","_","i","n","f","o">>  \* 'general_info'

deadline_info == <<"d","e","a","d","l","i","n","e","_","i","n","f","o">>  \* 'deadline_info'

uni_keywords ==
    << <<"s","t","a","n","f","o","r","d">>,  \* 'stanford'
       <<"m","i","t">>,  \* 'mit'
       <<"b","e","r","k","e","l","e","y">>,  \* 'berkeley'
       <<"c","m","u">>,  \* 'cmu'
       <<"c","a","l","t","e","c","h">>,  \* 'caltech'
       <<"h","a","r","v","a","r","d">>,  \* 'harvard'
       <<"p","r","i","n","c","e","t","o","n">>  \* 'princeton'
    >>

fallback_research_keywords ==
    << <<"m","a","c","h","i","n","e"," ","l","e","a","r","n","i","n","g">>,  \* 'machine learning'
       <<"m","l">>,  \* 'ml'
       <<"a","r","t","i","f","i","c","i","a","l"," ","i","n","t","e","l","l","i","g","e","n","c","e">>,  \* 'artificial intelligence'
       <<"a","i">>,  \* 'ai'
       <<"c","o","m","p","u","t","e","r"," ","v","i","s","i","o","n">>,  \* 'computer vision'
       <<"c","v">>,  \* 'cv'
       <<"n","a","t","u","r","a","l"," ","l","a","n","g","u","a","g","e"," ","p","r","o","c","e","s","s","i","n","g">>,  \* 'natural language processing'
       <<"n","l","p">>,  \* 'nlp'
       <<"r","o","b","o","t","i","c","s">>,  \* 'robotics'
       <<"s","y","s","t","e","m","s">>,  \* 'systems'
       <<"a","l","g","o","r","i","t","h","m","s">>,  \* 'algorithms'
       <<"c","y","b","e","r","s","e","c","u","r","i","t","y">>  \* 'cybersecurity'
    >>

txt_ml == <<"m","l">>  \* 'ml'

txt_ai == <<"a","i">>  \* 'ai'

txt_cv == <<"c","v">>  \* 'cv'

txt_nlp == <<"n","l","p">>  \* 'nlp'

txt_machine_learning == <<"m","a","c","h","i","n","e"," ","l","e","a","r","n","i","n","g">>  \* 'machine learning'

txt_artificial_intelligence == <<"a","r","t","i","f","i","c","i","a","l"," ","i","n","t","e","l","l","i","g","e","n","c","e">>  \* 'artificial intelligence'

txt_computer_vision == <<"c","o","m","p","u","t","e","r"," ","v","i","s","i","o","n">>  \* 'computer vision'

txt_natural_language_processing == <<"n","a","t","u","r","a","l"," ","l","a","n","g","u","a","g","e"," ","p","r","o","c","e","s","s","i","n","g">>  \* 'natural language processing'

kw_hiring == <<"h","i","r","i","n","g">>  \* 'hiring'
research_keywords ==
    << [area |-> <<"m","a","c","h","i","n","e"," ","l","e","a","r","n","i","n","g">>,  \* 'machine learning'
        keywords |-> << <<"m","a","c","h","i","n","e"," ","l","e","a","r","n","i","n","g">>,
                      <<"m","l">>,
                      <<"d","e","e","p"," ","l","e","a","r","n","i","n","g">> >>],
       [area |-> <<"a","r","t","i","f","i","c","i","a","l"," ","i","n","t","e","l","l","i","g","e","n","c","e">>,  \* 'artificial intelligence'
        keywords |-> << <<"a","r","t","i","f","i","c","i","a","l"," ","i","n","t","e","l","l","i","g","e","n","c","e">>,
                      <<"a","i">> >>],
       [area |-> <<"c","o","m","p","u","t","e","r"," ","v","i","s","i","o","n">>,  \* 'computer vision'
        keywords |-> << <<"c","o","m","p","u","t","e","r"," ","v","i","s","i","o","n">>,
                      <<"c","v">>,
                      <<"i","m","a","g","e"," ","p","r","o","c","e","s","s","i","n","g">> >>],
       [area |-> <<"n","a","t","u","r","a","l"," ","l","a","n","g","u","a","g","e"," ","p","r","o","c","e","s","s","i","n","g">>,  \* 'natural language processing'
        keywords |-> << <<"n","l","p">>,
                      <<"n","a","t","u","r","a","l"," ","l","a","n","g","u","a","g","e">> >>],
       [area |-> <<"r","o","b","o","t","i","c","s">>,  \* 'robotics'
        keywords |-> << <<"r","o","b","o","t","i","c","s">>,
                      <<"r","o","b","o","t">> >>],
       [area |-> <<"s","y","s","t","e","m","s">>,  \* 'systems'
        keywords |-> << <<"s","y","s","t","e","m","s">>,
                      <<"d","i","s","t","r","i","b","u","t","e","d">> >>],
       [area |-> <<"t","h","e","o","r","y">>,  \* 'theory'
        keywords |-> << <<"t","h","e","o","r","y">>,
                      <<"a","l","g","o","r","i","t","h","m","s">> >>],
       [area |-> <<"s","e","c","u","r","i","t","y">>,  \* 'security'
        keywords |-> << <<"s","e","c","u","r","i","t","y">>,
                      <<"c","r","y","p","t","o","g","r","a","p","h","y">> >>]
    >>

university_keywords ==
    << <<"s","t","a","n","f","o","r","d">>,  \* 'stanford'
       <<"m","i","t">>,  \* 'mit'
       <<"b","e","r","k","e","l","e","y">>,  \* 'berkeley'
       <<"c","m","u">>,  \* 'cmu'
       <<"c","a","l","t","e","c","h">>,  \* 'caltech'
       <<"h","a","r","v","a","r","d">>,  \* 'harvard'
       <<"p","r","i","n","c","e","t","o","n">>  \* 'princeton'
    >>

hiring_words ==
    << <<"h","i","r","i","n","g">>,  \* 'hiring'
       <<"r","e","c","r","u","i","t","i","n","g">>,  \* 'recruiting'
       <<"a","c","c","e","p","t","i","n","g">>  \* 'accepting'
    >>
(* ----------------------- intent classification ------------------------ *)
Range(f) == {f[i] : i \in DOMAIN f}

\* the fixed set of intent labels of the classifier contract
IntentLabels ==
    {faculty_search, program_search, research_analysis, application_info,
     general_chat, mixed}

\* a mutation: a tie goes to the first category
_classify_query_tie_first(q) ==
    LET query_lower   == Lower(q)
        faculty_score == CountIn(faculty_keywords, query_lower)
        program_score == CountIn(program_keywords, query_lower)
    IN  IF faculty_score >= program_score THEN faculty_search
        ELSE program_search

\* a mutation: a keyword counts only when it is a whole word of the query
_classify_query_whole_words(q) ==
    LET words == Range(Split(Lower(q)))
        faculty_score == Cardinality({k \in 1..Len(faculty_keywords) :
                                        faculty_keywords[k] \in words})
        program_score == Cardinality({k \in 1..Len(program_keywords) :
                                        program_keywords[k] \in words})
    IN  IF faculty_score > program_score THEN faculty_search
        ELSE IF program_score > faculty_score THEN program_search
        ELSE general_chat

\* ChatOrchestrator._classify_query
_classify_query(q) ==
    LET query_lower   == Lower(q)
        faculty_score == CountIn(faculty_keywords, query_lower)
        program_score == CountIn(program_keywords, query_lower)
    IN  IF faculty_score > program_score THEN faculty_search
        ELSE IF program_score > faculty_score THEN program_search
        ELSE general_chat

IsAlpha(c) ==
    \E k \in 1..26 : UpperAlpha[k] = c \/ LowerAlpha[k] = c

UpperChar(c) ==
    IF \E k \in 1..26 : LowerAlpha[k] = c
    THEN UpperAlpha[CHOOSE k \in 1..26 : LowerAlpha[k] = c]
    ELSE c

\* str.title()
Title(s) ==
    [i \in 1..Len(s) |->
        IF i = 1 \/ ~IsAlpha(s[i - 1]) THEN UpperChar(s[i]) ELSE LowerChar(s[i])]

\* [k for k in keywords if k in text], in list order
RECURSIVE KeywordsIn(_, _)
KeywordsIn(keywords, text) ==
    IF keywords = <<>> THEN <<>>
    ELSE (IF Contains(Head(keywords), text) THEN <<Head(keywords)>> ELSE <<>>)
         \o KeywordsIn(Tail(keywords), text)

\* the abbreviation branches of the research-area loop of _extract_keywords
ExpandAbbreviation(keyword) ==
    IF keyword = txt_ml THEN txt_machine_learning
    ELSE IF keyword = txt_ai THEN txt_artificial_intelligence
    ELSE IF keyword = txt_cv THEN txt_computer_vision
    ELSE IF keyword = txt_nlp THEN txt_natural_language_processing
    ELSE keyword

\* RealTimeDataOrchestrator._extract_keywords
_extract_keywords(message) ==
    LET message_lower == Lower(message)
        unis    == KeywordsIn(uni_keywords, message_lower)
        universities == [i \in 1..Len(unis) |-> Title(unis[i])]
        found   == KeywordsIn(fallback_research_keywords, message_lower)
        research_areas == [i \in 1..Len(found) |-> ExpandAbbreviation(found[i])]
        intent  == IF AnyIn(intent_faculty_words, message_lower) THEN faculty_search
                   ELSE IF AnyIn(intent_program_words, message_lower) THEN program_search
                   ELSE IF AnyIn(intent_deadline_words, message_lower) THEN deadline_info
                   ELSE general_info
    IN  [intent |-> intent,
         universities |-> universities,
         research_areas |-> research_areas,
         degree_types |-> <<>>,
         specific_requirements |-> <<>>,
         hiring_focus |-> Contains(kw_hiring, message_lower),
         search_terms |-> universities \o research_areas]

\* the keys of action_map in ChatAgent.classify_query
action_map == {faculty_search, program_search, research_analysis, general_chat}

\* ChatAgent.classify_query when the LLM call returns `content`
ClassifyFromContent(content) ==
    LET classification == Strip(Lower(FirstLine(content)))
    IN  [classification |-> classification,
         next_action |-> IF classification \in action_map
                         THEN classification ELSE general_chat]

\* ChatAgent.classify_query when the LLM call raises
ClassifyFallback ==
    [classification |-> general_chat, next_action |-> general_chat]

RECURSIVE SeqsUpTo(_, _)
\* all sequences of at most n elements of S
SeqsUpTo(S, n) ==
    IF n = 0 THEN {<<>>}
    ELSE LET shorter == SeqsUpTo(S, n - 1)
         IN  shorter \cup {Append(s, x) : s \in shorter, x \in S}

\* query texts the classifiers are run on
ClassifyQueries == {JoinWords(ws) : ws \in SeqsUpTo(Range(QueryWords), MaxWords)}

NoResult == [none |-> TRUE]

InitClassify ==
    /\ FetchIdle
    /\ SessionIdle
    /\ PipelineIdle
    /\ ExtractIdle
    /\ ServiceIdle
    /\ query \in ClassifyQueries
    /\ user_context = <<>>
    /\ faculty_list = <<>>
    /\ program_list = <<>>
    /\ op = "idle"
    /\ label = <<>>
    /\ classify_result = NoResult
    /\ query_info = NoResult
    /\ scored = <<>>

ClassifyQuery ==
    /\ op = "idle"
    /\ label' = _classify_query(query)
    /\ op' = "_classify_query"
    /\ UNCHANGED <<query, user_context, faculty_list, program_list,
                   classify_result, query_info, scored>>
    /\ UNCHANGED otherVars

ExtractKeywords ==
    /\ op = "idle"
    /\ query_info' = _extract_keywords(query)
    /\ op' = "_extract_keywords"
    /\ UNCHANGED <<query, user_context, faculty_list, program_list,
                   label, classify_result, scored>>
    /\ UNCHANGED otherVars

ChatAgentClassify ==
    /\ op = "idle"
    /\ \/ \E content \in Range(LLMReplies) :
            classify_result' = ClassifyFromContent(content)
       \/ classify_result' = ClassifyFallback
    /\ op' = "classify_query"
    /\ UNCHANGED <<query, user_context, faculty_list, program_list,
                   label, query_info, scored>>
    /\ UNCHANGED otherVars

NextClassify == ClassifyQuery \/ ExtractKeywords \/ ChatAgentClassify

SpecClassify == InitClassify /\ [][NextClassify]_vars

(* ------------------------- optional values ---------------------------- *)
\* A field that may be None is <<>> (None) or <<v>> (the value v).
Some(v) == <<v>>
Val(x) == x[1]

Min(a, b) == IF a < b THEN a ELSE b
Max(a, b) == IF a > b THEN a ELSE b

(* ----------------------------- scores --------------------------------- *)
\* Scores are carried as integer multiples of 1/Unit, so 1.0 is Unit.
\* hiring_probability and acceptance_rate are carried in the same unit.
Unit == 6000

\* the product (num/den) * x of a decimal weight num/den and a score x
Times(num, den, x) == (num * x) \div den

\* Research area matching: the number of areas one of whose lowercased,
\* whitespace-separated words occurs in the lowercased query
area_matches(query_lower, research_areas) ==
    Cardinality({i \in 1..Len(research_areas) :
        AnyIn(Split(Lower(research_areas[i])), query_lower)})

\* a mutation: the whole lowercased area name must occur in the query
AreaTerm_whole_name(q, research_areas) ==
    IF research_areas # <<>>
    THEN Times(4, 10, Min(Unit,
            (Unit * Cardinality({i \in 1..Len(research_areas) :
                        Contains(Lower(research_areas[i]), Lower(q))}))
            \div Max(1, Len(research_areas))))
    ELSE 0

\* Research area matching (40% weight)
AreaTerm(q, research_areas) ==
    IF research_areas # <<>>
    THEN Times(4, 10, Min(Unit,
            (Unit * area_matches(Lower(q), research_areas))
            \div Max(1, Len(research_areas))))
    ELSE 0

\* a mutation: the status "hiring" earns nothing
StatusTerm_no_hiring(faculty) ==
    IF faculty.hiring_status = "maybe" THEN Times(15, 100, Unit) ELSE 0

\* Hiring status (30% weight)
StatusTerm(faculty) ==
    IF faculty.hiring_status = "hiring" THEN Times(3, 10, Unit)
    ELSE IF faculty.hiring_status = "maybe" THEN Times(15, 100, Unit)
    ELSE 0

\* a mutation: the probability is weighted 10% instead of 20%
ProbabilityTerm_tenth(faculty) ==
    IF faculty.hiring_probability # 0
    THEN Times(1, 10, faculty.hiring_probability)
    ELSE 0

\* Hiring probability (20% weight)
ProbabilityTerm(faculty) ==
    IF faculty.hiring_probability # 0
    THEN Times(2, 10, faculty.hiring_probability)
    ELSE 0

\* a mutation: a missing timestamp is given full freshness
FreshnessTerm_default_fresh(faculty) ==
    IF faculty.last_scraped # <<>>
    THEN Times(1, 10, Max(0, Unit - (Unit * Val(faculty.last_scraped)) \div 30))
    ELSE Times(1, 10, Unit)

\* Recent updates (10% weight); last_scraped holds days_old, the whole
\* days between last_scraped and utcnow()
FreshnessTerm(faculty) ==
    IF faculty.last_scraped # <<>>
    THEN Times(1, 10, Max(0, Unit - (Unit * Val(faculty.last_scraped)) \div 30))
    ELSE 0

\* H-index and citations (10% weight)
HIndexTerm(faculty) ==
    IF faculty.h_index # <<>> /\ Val(faculty.h_index) # 0
    THEN Times(1, 10, Min(Unit, (Unit * Val(faculty.h_index)) \div 100))
    ELSE 0

\* the score accumulated by the loop body of
\* SmartFacultyAgent._score_faculty_matches
SmartFacultyScore(q, faculty) ==
    AreaTerm(q, faculty.research_areas) + StatusTerm(faculty)
        + ProbabilityTerm(faculty) + FreshnessTerm(faculty)

\* FacultyAgent._calculate_match_score
_calculate_match_score(q, faculty) ==
    Min(Unit, AreaTerm(q, faculty.research_areas) + StatusTerm(faculty)
                + ProbabilityTerm(faculty) + HIndexTerm(faculty))

\* the score accumulated by the loop body of
\* SmartProgramAgent._score_program_matches
SmartProgramScore(q, program) ==
    Times(5, 10, Unit)
      + (IF program.funding_available /\ Contains(kw_funding, Lower(q))
         THEN Times(3, 10, Unit) ELSE 0)
      + (IF program.acceptance_rate # <<>> /\ Val(program.acceptance_rate) # 0
            /\ Val(program.acceptance_rate) > Times(1, 10, Unit)
         THEN Times(2, 10, Unit) ELSE 0)

\* ProgramAgent._calculate_program_score
_calculate_program_score(q, program) ==
    LET query_lower == Lower(q)
    IN  Min(Unit,
          AreaTerm(q, program.research_areas)
          + (IF Contains(kw_funding, query_lower) /\ program.funding_available
             THEN Times(25, 100, Unit) ELSE 0)
          + (IF program.acceptance_rate # <<>> /\ Val(program.acceptance_rate) # 0
             THEN Times(2, 10, Val(program.acceptance_rate))
             ELSE 0)
          + (IF Contains(kw_no_gre, query_lower) /\ ~program.gre_required
             THEN Times(15, 100, Unit)
             ELSE IF ~Contains(kw_gre, query_lower) /\ program.gre_required
             THEN Times(5, 100, Unit)
             ELSE 0))

(* ----------------------------- ranking -------------------------------- *)
\* a mutation: an entry is placed before the entries of equal score
RECURSIVE InsertByScore_before_equal(_, _)
InsertByScore_before_equal(sorted, e) ==
    IF sorted = <<>> THEN <<e>>
    ELSE IF Head(sorted).match_score > e.match_score
         THEN <<Head(sorted)>> \o InsertByScore_before_equal(Tail(sorted), e)
         ELSE <<e>> \o sorted

\* one step of a stable descending sort: e goes after every entry whose
\* score is greater than or equal to its own
RECURSIVE InsertByScore(_, _)
InsertByScore(sorted, e) ==
    IF sorted = <<>> THEN <<e>>
    ELSE IF Head(sorted).match_score >= e.match_score
         THEN <<Head(sorted)>> \o InsertByScore(Tail(sorted), e)
         ELSE <<e>> \o sorted

\* scored_matches.sort(key=lambda x: x["match_score"], reverse=True)
RECURSIVE SortByMatchScore(_)
SortByMatchScore(entries) ==
    IF entries = <<>> THEN <<>>
    ELSE InsertByScore(SortByMatchScore(SubSeq(entries, 1, Len(entries) - 1)),
                       entries[Len(entries)])

\* SmartFacultyAgent._score_faculty_matches
Smart_score_faculty_matches(q, list) ==
    SortByMatchScore([i \in 1..Len(list) |->
        [faculty_id |-> list[i].id,
         research_areas |-> list[i].research_areas,
         hiring_status |-> list[i].hiring_status,
         hiring_probability |-> list[i].hiring_probability,
         match_score |-> SmartFacultyScore(q, list[i]),
         last_updated |-> list[i].last_scraped]])

\* FacultyAgent._score_faculty_matches
_score_faculty_matches(q, list) ==
    SortByMatchScore([i \in 1..Len(list) |->
        [faculty_id |-> list[i].id,
         research_areas |-> list[i].research_areas,
         hiring_status |-> list[i].hiring_status,
         hiring_probability |-> list[i].hiring_probability,
         match_score |-> _calculate_match_score(q, list[i])]])

\* SmartProgramAgent._score_program_matches
Smart_score_program_matches(q, list) ==
    SortByMatchScore([i \in 1..Len(list) |->
        [program_id |-> list[i].id,
         funding_available |-> list[i].funding_available,
         match_score |-> SmartProgramScore(q, list[i])]])

\* ProgramAgent._score_program_matches
_score_program_matches(q, list) ==
    SortByMatchScore([i \in 1..Len(list) |->
        [program_id |-> list[i].id,
         research_areas |-> list[i].research_areas,
         funding_available |-> list[i].funding_available,
         acceptance_rate |-> list[i].acceptance_rate,
         match_score |-> _calculate_program_score(q, list[i])]])

(* ------------------------ criteria extraction ------------------------- *)
\* the areas of research_keywords one of whose keywords occurs in the query
RECURSIVE AreasIn(_, _)
AreasIn(table, query_lower) ==
    IF table = <<>> THEN <<>>
    ELSE (IF AnyIn(Head(table).keywords, query_lower)
          THEN <<Head(table).area>> ELSE <<>>)
         \o AreasIn(Tail(table), query_lower)

\* _extract_search_criteria, were the list handed to setdefault one object
\* kept between calls: the interests of earlier calls stay in it
_extract_search_criteria_shared_default(q, research_interests) ==
    LET query_lower == Lower(q)
        research_areas == AreasIn(research_keywords, query_lower)
        unis == KeywordsIn(university_keywords, query_lower)
        kept == IF "SmartFacultyAgent" \in DOMAIN extracted
                   /\ extracted["SmartFacultyAgent"] # <<>>
                   /\ Val(extracted["SmartFacultyAgent"]).criteria.research_areas # <<>>
                THEN Val(Val(extracted["SmartFacultyAgent"]).criteria.research_areas)
                ELSE <<>>
    IN  [research_areas |->
            IF research_interests # <<>>
            THEN Some((IF research_areas # <<>> THEN research_areas ELSE kept)
                      \o research_interests)
            ELSE IF research_areas # <<>> THEN Some(research_areas) ELSE <<>>,
         university |-> IF unis # <<>> THEN Some(Head(unis)) ELSE <<>>,
         hiring_status |-> IF AnyIn(hiring_words, query_lower)
                           THEN Some("hiring") ELSE <<>>]

\* SmartFacultyAgent._extract_search_criteria; research_interests is
\* user_context['research_interests'], empty when no context is given.
\* A key the code leaves out of the dict is None here.
_extract_search_criteria(q, research_interests) ==
    LET query_lower == Lower(q)
        research_areas == AreasIn(research_keywords, query_lower)
        unis == KeywordsIn(university_keywords, query_lower)
    IN  [research_areas |->
            IF research_interests # <<>>
            THEN Some(research_areas \o research_interests)
            ELSE IF research_areas # <<>> THEN Some(research_areas) ELSE <<>>,
         university |-> IF unis # <<>> THEN Some(Head(unis)) ELSE <<>>,
         hiring_status |-> IF AnyIn(hiring_words, query_lower)
                           THEN Some("hiring") ELSE <<>>]

\* the post-query research-area filter of
\* SmartFacultyAgent._search_firebase_faculty: does the candidate stay?
research_area_filter(criteria, faculty) ==
    IF criteria.research_areas # <<>> /\ Val(criteria.research_areas) # <<>>
    THEN \E k \in 1..Len(Val(criteria.research_areas)) :
            Val(criteria.research_areas)[k] \in Range(faculty.research_areas)
    ELSE TRUE

(* --------------------------- scorer inputs ---------------------------- *)
AreaLists == {<<>>, <<robotics>>, <<MachineLearning, robotics>>}
HiringStatuses == {"hiring", "maybe", "not_hiring"}
\* -1.0 and 3.0 are malformed probabilities
HiringProbabilities == {-Unit, 0, Unit, 3 * Unit}
HIndexes == {<<>>, Some(50), Some(250)}
\* days_old of last_scraped; -60 is a timestamp in the future
DaysOld == {<<>>, Some(0), Some(45), Some(-60)}

FacultyRecords ==
    [research_areas : AreaLists, hiring_status : HiringStatuses,
     hiring_probability : HiringProbabilities, h_index : HIndexes,
     last_scraped : DaysOld]

\* the records that differ from f in at most one field
FacultyVariants(f) ==
    {[f EXCEPT !.research_areas = v] : v \in AreaLists}
    \cup {[f EXCEPT !.hiring_status = v] : v \in HiringStatuses}
    \cup {[f EXCEPT !.hiring_probability = v] : v \in HiringProbabilities}
    \cup {[f EXCEPT !.h_index = v] : v \in HIndexes}
    \cup {[f EXCEPT !.last_scraped = v] : v \in DaysOld}

WithId(r, i) == [k \in DOMAIN r \cup {"id"} |-> IF k = "id" THEN i ELSE r[k]]

\* the documents of a result list carry distinct ids
Numbered(list) == [i \in 1..Len(list) |-> WithId(list[i], i)]

\* two faculty candidates that are identical or differ in one field
FacultyPairs ==
    UNION {{Numbered(<<f, g>>) : g \in FacultyVariants(f)} : f \in FacultyRecords}

\* candidates many of which tie on their score
RankingPool ==
    {f \in FacultyRecords :
        /\ f.hiring_probability = 0
        /\ f.h_index = <<>>
        /\ f.last_scraped = <<>>
        /\ f.research_areas # <<>>}

\* result lists of at most MaxCands candidates of the pool
RankingInputs == {Numbered(l) : l \in SeqsUpTo(RankingPool, MaxCands)}

\* -0.5 and 2.0 are malformed acceptance rates
AcceptanceRates == {<<>>, Some(-(Unit \div 2)), Some(Unit \div 20),
                    Some(Unit \div 2), Some(2 * Unit)}

ProgramRecords ==
    [research_areas : AreaLists, funding_available : BOOLEAN,
     acceptance_rate : AcceptanceRates, gre_required : BOOLEAN]

ProgramVariants(p) ==
    {[p EXCEPT !.research_areas = v] : v \in AreaLists}
    \cup {[p EXCEPT !.funding_available = v] : v \in BOOLEAN}
    \cup {[p EXCEPT !.acceptance_rate = v] : v \in AcceptanceRates}
    \cup {[p EXCEPT !.gre_required = v] : v \in BOOLEAN}

\* two program candidates that are identical or differ in one field
ProgramPairs ==
    UNION {{Numbered(<<p, r>>) : r \in ProgramVariants(p)} : p \in ProgramRecords}

\* the research_interests a caller context supplies (none, or robotics)
ResearchInterests == {<<>>, <<robotics>>}

InitScore ==
    /\ FetchIdle
    /\ SessionIdle
    /\ PipelineIdle
    /\ ExtractIdle
    /\ ServiceIdle
    /\ query \in Range(ScoreQueries)
    /\ user_context \in ResearchInterests
    /\ \/ faculty_list \in FacultyPairs \cup RankingInputs /\ program_list = <<>>
       \/ faculty_list = <<>> /\ program_list \in ProgramPairs
    /\ op = "idle"
    /\ label = <<>>
    /\ classify_result = NoResult
    /\ query_info = NoResult
    /\ scored = <<>>

SmartScoreFacultyMatches ==
    /\ op = "idle"
    /\ scored' = Smart_score_faculty_matches(query, faculty_list)
    /\ op' = "SmartFacultyAgent._score_faculty_matches"
    /\ UNCHANGED <<query, user_context, faculty_list, program_list, label,
                   classify_result, query_info>>
    /\ UNCHANGED otherVars

ScoreFacultyMatches ==
    /\ op = "idle"
    /\ scored' = _score_faculty_matches(query, faculty_list)
    /\ op' = "FacultyAgent._score_faculty_matches"
    /\ UNCHANGED <<query, user_context, faculty_list, program_list, label,
                   classify_result, query_info>>
    /\ UNCHANGED otherVars

SmartScoreProgramMatches ==
    /\ op = "idle"
    /\ scored' = Smart_score_program_matches(query, program_list)
    /\ op' = "SmartProgramAgent._score_program_matches"
    /\ UNCHANGED <<query, user_context, faculty_list, program_list, label,
                   classify_result, query_info>>
    /\ UNCHANGED otherVars

ScoreProgramMatches ==
    /\ op = "idle"
    /\ scored' = _score_program_matches(query, program_list)
    /\ op' = "ProgramAgent._score_program_matches"
    /\ UNCHANGED <<query, user_context, faculty_list, program_list, label,
                   classify_result, query_info>>
    /\ UNCHANGED otherVars

NextScore ==
    \/ SmartScoreFacultyMatches
    \/ ScoreFacultyMatches
    \/ SmartScoreProgramMatches
    \/ ScoreProgramMatches

SpecScore == InitScore /\ [][NextScore]_vars

(* ======================= properties: classifier ======================= *)
faculty_hits == CountIn(faculty_keywords, Lower(query))
program_hits == CountIn(program_keywords, Lower(query))

\* C3 (as stated): when the faculty and program keyword counts are equal
\* and non-zero, _classify_query returns mixed.
C3_TieReturnsMixed ==
    (op = "_classify_query" /\ faculty_hits = program_hits /\ faculty_hits > 0)
        => label = mixed

\* C3 (amended): when the faculty and program keyword counts are equal and
\* non-zero, _classify_query returns general_chat.
C3_TieReturnsGeneralChat ==
    (op = "_classify_query" /\ faculty_hits = program_hits /\ faculty_hits > 0)
        => label = general_chat

C3_Witness ==
    /\ op = "_classify_query"
    /\ faculty_hits = program_hits
    /\ faculty_hits > 0
    /\ label = general_chat

\* C4: every classifier returns a label of the fixed set IntentLabels: the
\* keyword classifiers, and ChatAgent.classify_query whatever the LLM says.
C4_LabelInFixedSet ==
    /\ op = "_classify_query" => label \in IntentLabels
    /\ op = "_extract_keywords" => query_info.intent \in IntentLabels
    /\ op = "classify_query" => classify_result.classification \in IntentLabels

\* C5: a query with a program keyword and no faculty keyword is classified
\* program_search; one with a faculty keyword and no program keyword is
\* classified faculty_search.
C5_SingleCategoryWins ==
    op = "_classify_query" =>
        /\ (AnyIn(program_keywords, Lower(query))
              /\ ~AnyIn(faculty_keywords, Lower(query))) => label = program_search
        /\ (AnyIn(faculty_keywords, Lower(query))
              /\ ~AnyIn(program_keywords, Lower(query))) => label = faculty_search

C5_Witness ==
    /\ op = "_classify_query"
    /\ AnyIn(program_keywords, Lower(query))
    /\ ~AnyIn(faculty_keywords, Lower(query))
    /\ label = program_search

\* C6: a query without any keyword of any intent category is classified
\* general_chat, by _classify_query and by _extract_keywords.
C6_NoKeywordIsGeneralChat ==
    /\ (op = "_classify_query"
          /\ ~AnyIn(faculty_keywords, Lower(query))
          /\ ~AnyIn(program_keywords, Lower(query))) => label = general_chat
    /\ (op = "_extract_keywords"
          /\ ~AnyIn(intent_faculty_words, Lower(query))
          /\ ~AnyIn(intent_program_words, Lower(query))
          /\ ~AnyIn(intent_deadline_words, Lower(query)))
            => query_info.intent = general_chat

(* ========================= properties: scorer ========================= *)
FacultyOps == {"SmartFacultyAgent._score_faculty_matches",
               "FacultyAgent._score_faculty_matches"}
ProgramOps == {"SmartProgramAgent._score_program_matches",
               "ProgramAgent._score_program_matches"}
ScoringOps == FacultyOps \cup ProgramOps

\* the candidate list the operation that ran was given
InputList == IF op \in FacultyOps THEN faculty_list ELSE program_list

EntryId(e) == IF op \in FacultyOps THEN e.faculty_id ELSE e.program_id

\* the position of the candidate with this id in the input list
PositionOf(id) == CHOOSE k \in 1..Len(InputList) : InputList[k].id = id

\* the candidate an entry of the result was computed from
CandidateOf(e) == InputList[PositionOf(EntryId(e))]

\* the match_score the result gives the candidate at input position k
ScoreAt(k) ==
    scored[CHOOSE i \in 1..Len(scored) : EntryId(scored[i]) = InputList[k].id]
        .match_score

\* a and b agree on every field but `field` (and their ids)
IdenticalExcept(a, b, field) ==
    \A k \in DOMAIN a \ {"id", field} : a[k] = b[k]

\* C1: every match_score lies in [0.0, 1.0].
C1_ScoreInUnitInterval ==
    op \in ScoringOps =>
        \A i \in 1..Len(scored) :
            scored[i].match_score >= 0 /\ scored[i].match_score <= Unit

\* C2: the result has exactly one entry per input candidate, is ordered by
\* match_score non-increasing, and entries of equal match_score keep the
\* relative order of their candidates in the input.
C2_FullStableDescending ==
    op \in ScoringOps =>
        /\ Len(scored) = Len(InputList)
        /\ \A k \in 1..Len(InputList) :
              Cardinality({i \in 1..Len(scored) :
                              EntryId(scored[i]) = InputList[k].id}) = 1
        /\ \A i, j \in 1..Len(scored) :
              i < j =>
                /\ scored[i].match_score >= scored[j].match_score
                /\ scored[i].match_score = scored[j].match_score
                     => PositionOf(EntryId(scored[i])) < PositionOf(EntryId(scored[j]))

C2_Witness ==
    /\ op \in FacultyOps
    /\ Len(scored) = 3
    /\ EntryId(scored[1]) # 1
    /\ \E i \in 1..2 : scored[i].match_score = scored[i + 1].match_score

\* the canonical four-term sum of the specification, clamped to [0,1]
CanonicalScore(q, f) ==
    Max(0, Min(Unit,
        AreaTerm(q, f.research_areas)
        + (IF f.hiring_status = "hiring" THEN (30 * Unit) \div 100
           ELSE IF f.hiring_status = "maybe" THEN (15 * Unit) \div 100 ELSE 0)
        + (IF f.h_index = <<>> THEN 0
           ELSE (20 * Min(Unit, (Unit * Val(f.h_index)) \div 100)) \div 100)
        + (IF f.last_scraped = <<>> THEN 0
           ELSE (10 * Max(0, Unit - (Unit * Val(f.last_scraped)) \div 30)) \div 100)))

\* C7 (as stated): the faculty match_score equals the canonical sum of
\* 0.40 x overlap, the status term, 0.20 x min(1, h_index/100) and
\* 0.10 x max(0, 1 - days/30), clamped to [0,1].
C7_CanonicalSum ==
    op \in FacultyOps =>
        \A i \in 1..Len(scored) :
            scored[i].match_score = CanonicalScore(query, CandidateOf(scored[i]))

\* the sum the SmartFacultyAgent computes, written out in units of 1/Unit
SmartSum(q, f) ==
    AreaTerm(q, f.research_areas)
    + (IF f.hiring_status = "hiring" THEN (30 * Unit) \div 100
       ELSE IF f.hiring_status = "maybe" THEN (15 * Unit) \div 100 ELSE 0)
    + (20 * f.hiring_probability) \div 100
    + (IF f.last_scraped = <<>> THEN 0
       ELSE (10 * Max(0, Unit - (Unit * Val(f.last_scraped)) \div 30)) \div 100)

\* the sum the FacultyAgent computes, before its clamp
AgentSum(q, f) ==
    AreaTerm(q, f.research_areas)
    + (IF f.hiring_status = "hiring" THEN (30 * Unit) \div 100
       ELSE IF f.hiring_status = "maybe" THEN (15 * Unit) \div 100 ELSE 0)
    + (20 * f.hiring_probability) \div 100
    + (IF f.h_index = <<>> THEN 0
       ELSE (10 * Min(Unit, (Unit * Val(f.h_index)) \div 100)) \div 100)

\* C7 (amended): SmartFacultyAgent's match_score is 0.40 x overlap + the
\* status term + 0.20 x hiring_probability + 0.10 x max(0, 1 - days/30),
\* not clamped; FacultyAgent's is 0.40 x overlap + the status term +
\* 0.20 x hiring_probability + 0.10 x min(1, h_index/100), clamped above
\* at 1.0 only.
C7_CodeSums ==
    /\ op = "SmartFacultyAgent._score_faculty_matches" =>
          \A i \in 1..Len(scored) :
              scored[i].match_score = SmartSum(query, CandidateOf(scored[i]))
    /\ op = "FacultyAgent._score_faculty_matches" =>
          \A i \in 1..Len(scored) :
              scored[i].match_score
                  = Min(Unit, AgentSum(query, CandidateOf(scored[i])))

C7_Witness ==
    /\ op = "SmartFacultyAgent._score_faculty_matches"
    /\ \E i \in 1..Len(scored) :
          LET f == CandidateOf(scored[i])
          IN  /\ f.hiring_probability = Unit
              /\ f.h_index = Some(50)
              /\ f.last_scraped = Some(0)
              /\ f.hiring_status = "maybe"
              /\ scored[i].match_score # CanonicalScore(query, f)

\* the part of a faculty match_score left when the other terms the scorer
\* added are taken away (FacultyAgent: defined below its clamp)
AreaPart(e) ==
    LET f == CandidateOf(e)
    IN  IF op = "SmartFacultyAgent._score_faculty_matches"
        THEN e.match_score - StatusTerm(f) - ProbabilityTerm(f) - FreshnessTerm(f)
        ELSE e.match_score - StatusTerm(f) - ProbabilityTerm(f) - HIndexTerm(f)

\* where AreaPart is the research-area term
AreaPartDefined(e) ==
    \/ op = "SmartFacultyAgent._score_faculty_matches"
    \/ op = "FacultyAgent._score_faculty_matches" /\ e.match_score < Unit

\* the areas of the criteria extracted from the query and the caller context
CriteriaAreas ==
    LET c == _extract_search_criteria(query, user_context).research_areas
    IN  IF c = <<>> THEN <<>> ELSE Val(c)

\* substring match of a candidate area and a criteria area, ignoring case
AreaMatchesCriteria(area) ==
    \E k \in 1..Len(CriteriaAreas) :
        \/ Contains(Lower(CriteriaAreas[k]), Lower(area))
        \/ Contains(Lower(area), Lower(CriteriaAreas[k]))

\* 0.40 x count / max(1, n)
FortyPercentOf(count, n) == (40 * ((Unit * count) \div Max(1, n))) \div 100

\* C8 (as stated): the research-area term is 0.40 x (candidate areas that
\* match an area of the extracted criteria, caller context included)
\* / max(1, number of candidate areas), for every candidate the search
\* hands to the scorer.
C8_CriteriaOverlap ==
    op = "SmartFacultyAgent._score_faculty_matches" =>
        \A i \in 1..Len(scored) :
            LET f == CandidateOf(scored[i])
                criteria == _extract_search_criteria(query, user_context)
            IN  (/\ criteria.hiring_status = <<>>
                 /\ criteria.university = <<>>
                 /\ research_area_filter(criteria, f))
                => AreaPart(scored[i]) =
                     FortyPercentOf(
                        Cardinality({a \in 1..Len(f.research_areas) :
                                        AreaMatchesCriteria(f.research_areas[a])}),
                        Len(f.research_areas))

\* the candidate areas one of whose words occurs in the lowercased query
QueryWordAreas(f) ==
    {a \in 1..Len(f.research_areas) :
        \E w \in Range(Split(Lower(f.research_areas[a]))) :
            Contains(w, Lower(query))}

\* C8 (amended): the research-area term is 0.40 x (candidate areas that
\* have a whitespace-separated word of their lowercased name occurring in
\* the lowercased query) / max(1, number of candidate areas): exactly 0.40
\* when every candidate area has such a word, 0 when none has; the
\* extracted criteria and the caller context play no part.
C8_QueryWordOverlap ==
    op \in FacultyOps =>
        \A i \in 1..Len(scored) :
            LET f == CandidateOf(scored[i])
                n == Len(f.research_areas)
                k == Cardinality(QueryWordAreas(f))
            IN  AreaPartDefined(scored[i]) =>
                  /\ AreaPart(scored[i]) = FortyPercentOf(k, n)
                  /\ (n > 0 /\ k = n) => AreaPart(scored[i]) = (40 * Unit) \div 100
                  /\ k = 0 => AreaPart(scored[i]) = 0

C8_Witness ==
    /\ op = "SmartFacultyAgent._score_faculty_matches"
    /\ user_context # <<>>
    /\ \E i \in 1..Len(scored) :
          LET f == CandidateOf(scored[i])
          IN  /\ Len(f.research_areas) = 2
              /\ Cardinality(QueryWordAreas(f)) = 1
              /\ AreaPart(scored[i]) = (20 * Unit) \div 100

\* the input positions of a hiring candidate and a not_hiring candidate
\* that are otherwise identical
HiringPairs ==
    {p \in (1..Len(faculty_list)) \X (1..Len(faculty_list)) :
        /\ faculty_list[p[1]].hiring_status = "hiring"
        /\ faculty_list[p[2]].hiring_status = "not_hiring"
        /\ IdenticalExcept(faculty_list[p[1]], faculty_list[p[2]], "hiring_status")}

TimestampPairs ==
    {p \in (1..Len(faculty_list)) \X (1..Len(faculty_list)) :
        /\ faculty_list[p[1]].last_scraped = <<>>
        /\ faculty_list[p[2]].last_scraped # <<>>
        /\ IdenticalExcept(faculty_list[p[1]], faculty_list[p[2]], "last_scraped")}

\* C10: of two candidates identical except that one has no last_scraped
\* and the other has one, the one without never has the greater score.
C10_MissingTimestampNotRewarded ==
    op \in FacultyOps =>
        \A p \in TimestampPairs : ScoreAt(p[1]) <= ScoreAt(p[2])

C10_Witness ==
    /\ op = "SmartFacultyAgent._score_faculty_matches"
    /\ \E p \in TimestampPairs :
          /\ faculty_list[p[2]].last_scraped = Some(0)
          /\ ScoreAt(p[1]) < ScoreAt(p[2])

(* ------------------ concurrent fetches and aggregation ---------------- *)
MaxTasks == 3   \* fetches one query starts

\* the fan-out functions: RealTimeDataOrchestrator._fetch_real_time_data,
\* RealTimeIntelligenceAgent._execute_intelligent_scraping and
\* IntelligentScrapingAgent._scrape_websites
FanOutSites == {"orchestrator", "intelligence", "scraper"}

\* the n-th entry produced by task i
Item(i, n) == <<i, n>>

Pending == [kind |-> "pending"]
\* a coroutine that raised or timed out: gather keeps the exception object
Raised == [kind |-> "exception"]
DictResult(d) == [kind |-> "dict", value |-> d]
ListResult(l) == [kind |-> "list", value |-> l]

\* the four-key dict every source search of the orchestrator returns
SourceDict(faculty, programs, sources) ==
    [faculty_matches |-> faculty, program_matches |-> programs,
     recent_updates |-> <<>>, sources |-> sources]

\* what task i of the orchestrator can hand to gather
OrchestratorOutcomes(i) ==
    { Raised,
      DictResult(SourceDict(<<Item(i, 1), Item(i, 2)>>, <<>>, <<Item(i, 0)>>)),
      DictResult(SourceDict(<<>>, <<Item(i, 1)>>, <<Item(i, 0)>>)),
      DictResult(SourceDict(<<>>, <<>>, <<>>)) }

\* what a source scraper of the intelligence agent can hand to gather
IntelligenceOutcomes(i) ==
    { Raised, ListResult(<<Item(i, 1), Item(i, 2)>>),
      ListResult(<<Item(i, 1)>>), ListResult(<<>>) }

\* what _scrape_single_website can hand to gather: a page with its extracted
\* content, or its own error dict for a bad status or a failed request
ScraperOutcomes(i) ==
    { Raised,
      DictResult([url |-> i, content |-> <<Item(i, 1)>>]),
      DictResult([url |-> i, content |-> <<Item(i, 1), Item(i, 2)>>]),
      DictResult([url |-> i, error |-> "HTTP 500"]) }

OutcomesOf(s, i) ==
    CASE s = "orchestrator" -> OrchestratorOutcomes(i)
      [] s = "intelligence" -> IntelligenceOutcomes(i)
      [] OTHER -> ScraperOutcomes(i)

TaskLists(s) ==
    UNION { { t \in [1..n -> UNION { OutcomesOf(s, i) : i \in 1..n }] :
                \A i \in 1..n : t[i] \in OutcomesOf(s, i) } : n \in 1..MaxTasks }

\* the slot of gather's result list that receives task i: its position
\* among the awaitables, whatever has completed before it
GatherSlot_as_completed(i, completed) == Len(completed) + 1

GatherSlot(i, completed) == i

\* one task finishing under asyncio.gather(*tasks, return_exceptions=True)
StoreResult(res, i, completed, outcome) ==
    [res EXCEPT ![GatherSlot(i, completed)] = outcome]

\* isinstance(result, dict) / isinstance(result, list)
IsDict(result) == result.kind = "dict"
IsList(result) == result.kind = "list"

EmptyCombined == SourceDict(<<>>, <<>>, <<>>)

\* agents.py: for key in combined_data: if key in result: extend
ExtendCombined_overwrite(combined, result) ==
    IF IsDict(result)
    THEN [key \in DOMAIN combined |->
            IF key \in DOMAIN result.value
            THEN result.value[key]
            ELSE combined[key]]
    ELSE combined

ExtendCombined(combined, result) ==
    IF IsDict(result)
    THEN [key \in DOMAIN combined |->
            IF key \in DOMAIN result.value
            THEN combined[key] \o result.value[key]
            ELSE combined[key]]
    ELSE combined

\* realtime_intelligence_agent.py: if isinstance(result, list): extend
ExtendScraped(all_scraped_data, result) ==
    IF IsList(result) THEN all_scraped_data \o result.value
    ELSE all_scraped_data

\* intelligent_scraper.py: if isinstance(result, dict) and
\* result.get("content"): append
AppendScraped(scraped_data, result) ==
    IF IsDict(result) /\ "content" \in DOMAIN result.value
                      /\ result.value.content # <<>>
    THEN Append(scraped_data, result.value)
    ELSE scraped_data

RECURSIVE CombineResults(_, _)
CombineResults(combined, res) ==
    IF res = <<>> THEN combined
    ELSE CombineResults(ExtendCombined(combined, Head(res)), Tail(res))

RECURSIVE CollectScraped(_, _)
CollectScraped(all_scraped_data, res) ==
    IF res = <<>> THEN all_scraped_data
    ELSE CollectScraped(ExtendScraped(all_scraped_data, Head(res)), Tail(res))

RECURSIVE CollectPages(_, _)
CollectPages(scraped_data, res) ==
    IF res = <<>> THEN scraped_data
    ELSE CollectPages(AppendScraped(scraped_data, Head(res)), Tail(res))

\* no classification or scoring operation is involved
CoreIdle ==
    /\ query = <<>>
    /\ user_context = <<>>
    /\ faculty_list = <<>>
    /\ program_list = <<>>
    /\ op = "idle"
    /\ label = <<>>
    /\ classify_result = NoResult
    /\ query_info = NoResult
    /\ scored = <<>>

InitFetch ==
    /\ CoreIdle
    /\ SessionIdle
    /\ PipelineIdle
    /\ ExtractIdle
    /\ ServiceIdle
    /\ site \in FanOutSites
    /\ tasks \in TaskLists(site)
    /\ results = [i \in 1..Len(tasks) |-> Pending]
    /\ completion_order = <<>>
    /\ combined_data = <<>>
    /\ fetch_pc = "gathering"

\* one of the awaited coroutines finishes, with a value or an exception
TaskCompletes(i) ==
    /\ fetch_pc = "gathering"
    /\ i \in 1..Len(tasks)
    /\ \A k \in 1..Len(completion_order) : completion_order[k] # i
    /\ results' = StoreResult(results, i, completion_order, tasks[i])
    /\ completion_order' = Append(completion_order, i)
    /\ UNCHANGED <<site, tasks, combined_data, fetch_pc, notFetchVars>>

AllCompleted == Len(completion_order) = Len(tasks)

\* _fetch_real_time_data after the await: the combining loop and the return
FetchRealTimeData ==
    /\ fetch_pc = "gathering" /\ site = "orchestrator" /\ AllCompleted
    /\ combined_data' = CombineResults(EmptyCombined, results)
    /\ fetch_pc' = "returned"
    /\ UNCHANGED <<site, tasks, results, completion_order, notFetchVars>>

\* _execute_intelligent_scraping after the await
ExecuteIntelligentScraping ==
    /\ fetch_pc = "gathering" /\ site = "intelligence" /\ AllCompleted
    /\ combined_data' = CollectScraped(<<>>, results)
    /\ fetch_pc' = "returned"
    /\ UNCHANGED <<site, tasks, results, completion_order, notFetchVars>>

\* _scrape_websites after the await
ScrapeWebsites ==
    /\ fetch_pc = "gathering" /\ site = "scraper" /\ AllCompleted
    /\ combined_data' = CollectPages(<<>>, results)
    /\ fetch_pc' = "returned"
    /\ UNCHANGED <<site, tasks, results, completion_order, notFetchVars>>

NextFetch ==
    \/ \E i \in 1..MaxTasks : TaskCompletes(i)
    \/ FetchRealTimeData
    \/ ExecuteIntelligentScraping
    \/ ScrapeWebsites

SpecFetch == InitFetch /\ [][NextFetch]_vars

(* ------------------------- claims C11, C13 ---------------------------- *)
\* fetch i produced a result, as opposed to raising, timing out or
\* reporting its own error
Succeeded(i) ==
    CASE site = "orchestrator" -> IsDict(tasks[i])
      [] site = "intelligence" -> IsList(tasks[i])
      [] OTHER -> IsDict(tasks[i]) /\ "content" \in DOMAIN tasks[i].value

RECURSIVE ConcatUpTo(_, _)
\* part[1] \o ... \o part[n]
ConcatUpTo(part, n) ==
    IF n = 0 THEN <<>> ELSE ConcatUpTo(part, n - 1) \o part[n]

\* the concatenation, in the order the fetches were started, of what the
\* successful fetches returned
ExpectedAggregate ==
    LET n == Len(tasks)
    IN  CASE site = "orchestrator" ->
               [key \in DOMAIN EmptyCombined |->
                  ConcatUpTo([i \in 1..n |-> IF Succeeded(i)
                                             THEN tasks[i].value[key]
                                             ELSE <<>>], n)]
          [] site = "intelligence" ->
               ConcatUpTo([i \in 1..n |-> IF Succeeded(i)
                                          THEN tasks[i].value ELSE <<>>], n)
          [] OTHER ->
               ConcatUpTo([i \in 1..n |-> IF Succeeded(i)
                                          THEN <<tasks[i].value>> ELSE <<>>], n)

\* C11: whatever subset of the started fetches fails, the fan-out still
\* returns, and what it returns is the concatenation of the results of
\* exactly the fetches that succeeded; a failed fetch adds nothing.
C11_SucceededFetchesConcatenated ==
    /\ (fetch_pc = "gathering" /\ AllCompleted) =>
          ENABLED (FetchRealTimeData \/ ExecuteIntelligentScraping
                   \/ ScrapeWebsites)
    /\ fetch_pc = "returned" => combined_data = ExpectedAggregate

\* a fan-out has returned after one fetch failed and two succeeded
C11_Witness ==
    /\ fetch_pc = "returned"
    /\ \E i \in 1..Len(tasks) : ~Succeeded(i)
    /\ Cardinality({i \in 1..Len(tasks) : Succeeded(i)}) >= 2
    /\ combined_data = ExpectedAggregate
    /\ site = "orchestrator" => Len(combined_data.faculty_matches) >= 4

RECURSIVE GatherAfter(_, _, _)
\* gather's result list once the tasks have finished in the order `rest`
GatherAfter(res, completed, rest) ==
    IF rest = <<>> THEN res
    ELSE GatherAfter(StoreResult(res, Head(rest), completed, tasks[Head(rest)]),
                     Append(completed, Head(rest)), Tail(rest))

CompletionOrders ==
    { o \in [1..Len(tasks) -> 1..Len(tasks)] :
        \A i, j \in 1..Len(tasks) : o[i] = o[j] => i = j }

\* what the aggregation loop returns when the fetches finish in `order`
MergedAfter(order) ==
    LET res == GatherAfter([i \in 1..Len(tasks) |-> Pending], <<>>, order)
    IN  IF site = "orchestrator"
        THEN CombineResults(EmptyCombined, res)
        ELSE CollectScraped(<<>>, res)

\* C13: the merged faculty and program lists of a query do not depend on
\* the order in which its fetches complete: every completion order of the
\* same fetches gives the lists this run returned.
C13_MergeIndependentOfCompletionOrder ==
    (fetch_pc = "returned" /\ site \in {"orchestrator", "intelligence"}) =>
        \A order \in CompletionOrders :
            IF site = "orchestrator"
            THEN /\ MergedAfter(order).faculty_matches
                        = combined_data.faculty_matches
                 /\ MergedAfter(order).program_matches
                        = combined_data.program_matches
            ELSE MergedAfter(order) = combined_data

\* the fetches finished in another order than they were started, and two of
\* them brought entries
C13_Witness ==
    /\ fetch_pc = "returned"
    /\ site \in {"orchestrator", "intelligence"}
    /\ \E k \in 1..Len(completion_order) : completion_order[k] # k
    /\ Cardinality({i \in 1..Len(tasks) :
                      Succeeded(i) /\ tasks[i] \notin
                         {DictResult(EmptyCombined), ListResult(<<>>)}}) >= 2

(* -------- concurrent queries on the one shared RealDataAIAgent -------- *)
NumQueries == 2   \* process_query calls in flight on the agent
MaxUrls == 3      \* pages one query requests

Queries == 1..NumQueries

\* a request that raised inside _scrape_university_faculty and was skipped
NoPage == 0

InitSession ==
    /\ CoreIdle
    /\ FetchIdle
    /\ PipelineIdle
    /\ ExtractIdle
    /\ ServiceIdle
    /\ self_session = 0
    /\ session_state = [q \in Queries |-> "unopened"]
    /\ query_pc = [q \in Queries |-> "start"]
    /\ urls_left \in [Queries -> 0..MaxUrls]
    /\ in_flight = [q \in Queries |-> 0]
    /\ fetched = [q \in Queries |-> <<>>]

\* leaving `async with aiohttp.ClientSession(...) as session`
CloseSession(states, q) == [states EXCEPT ![q] = "closed"]

\* self.session.get(url): a closed session refuses the request at once
CanRequest(states, s) == states[s] = "open"

\* process_query up to its first suspension: _fetch_real_data opens the
\* query's session, stores it in self.session and sends the first request
BeginQuery(q) ==
    /\ query_pc[q] = "start"
    /\ self_session' = q
    /\ IF urls_left[q] = 0
       THEN /\ session_state' = CloseSession(session_state, q)
            /\ query_pc' = [query_pc EXCEPT ![q] = "done"]
            /\ UNCHANGED in_flight
       ELSE /\ session_state' = [session_state EXCEPT ![q] = "open"]
            /\ query_pc' = [query_pc EXCEPT ![q] = "awaiting"]
            /\ in_flight' = [in_flight EXCEPT ![q] = q]
    /\ UNCHANGED <<urls_left, fetched, notSessionVars>>

\* the pending request of query q resolves and the scraping loop runs on to
\* its next suspension: the next request goes out on whatever self.session
\* holds by now; after the last page the query's own session is closed
RequestResolves(q, ok) ==
    /\ query_pc[q] = "awaiting"
    /\ session_state[in_flight[q]] = "open" => ok
    /\ LET page == IF ok THEN in_flight[q] ELSE NoPage
           left == urls_left[q] - 1
       IN  IF left > 0 /\ CanRequest(session_state, self_session)
           THEN /\ fetched' = [fetched EXCEPT ![q] = Append(@, page)]
                /\ urls_left' = [urls_left EXCEPT ![q] = left]
                /\ in_flight' = [in_flight EXCEPT ![q] = self_session]
                /\ UNCHANGED <<query_pc, session_state>>
           ELSE /\ fetched' = [fetched EXCEPT ![q] =
                                 Append(@, page) \o [k \in 1..left |-> NoPage]]
                /\ urls_left' = [urls_left EXCEPT ![q] = 0]
                /\ in_flight' = [in_flight EXCEPT ![q] = 0]
                /\ query_pc' = [query_pc EXCEPT ![q] = "done"]
                /\ session_state' = CloseSession(session_state, q)
    /\ UNCHANGED <<self_session, notSessionVars>>

NextSession ==
    \/ \E q \in Queries : BeginQuery(q)
    \/ \E q \in Queries, ok \in BOOLEAN : RequestResolves(q, ok)

SpecSession == InitSession /\ [][NextSession]_vars

(* ------------------------------ claim C12 ------------------------------ *)
\* C12: queries running on the same agent do not interfere: every page a
\* query asked for was requested on the session that query opened, and was
\* obtained, whatever the other queries were doing.
C12_OwnSessionOnly ==
    \A q \in Queries :
        /\ query_pc[q] = "awaiting" => in_flight[q] = q
        /\ \A k \in 1..Len(fetched[q]) : fetched[q][k] = q

(* ------------- serving a call while collaborators fail ---------------- *)
MaxFailures == 2   \* steps that fail during one call

\* the steps of a call that can raise: the candidate retrieval (store query
\* or web fetch), the LLM call, the composition of the answer, and the
\* search-history lookup
Steps == {"retrieval", "llm", "compose", "history"}

FailureSets == {F \in SUBSET Steps : Cardinality(F) <= MaxFailures}

\* a text is the sequence of its pieces; the empty string has none
Text(piece) == <<piece>>
EmptyText == <<>>

StrResult(t) == [kind |-> "str", value |-> t]

\* list[:n]
Take(list, n) == SubSeq(list, 1, Min(n, Len(list)))

max_daily_tokens == 50000

RespondQueries ==
    << <<"f","i","n","d"," ","p","r","o","f","e","s","s","o","r","s">>,  \* 'find professors'
       <<"h","i","r","i","n","g"," ","f","a","c","u","l","t","y"," ","a","t"," ","m","i","t">>,  \* 'hiring faculty at mit'
       <<"p","h","d"," ","p","r","o","g","r","a","m"," ","r","e","q","u","i","r","e","m","e","n","t","s">>,  \* 'phd program requirements'
       <<"a","p","p","l","i","c","a","t","i","o","n"," ","d","e","a","d","l","i","n","e">>,  \* 'application deadline'
       <<"h","e","l","l","o">>  \* 'hello'
    >>

w_faculty == <<"f","a","c","u","l","t","y">>  \* 'faculty'

w_program == <<"p","r","o","g","r","a","m">>  \* 'program'

w_requirement == <<"r","e","q","u","i","r","e","m","e","n","t">>  \* 'requirement'

w_deadline == <<"d","e","a","d","l","i","n","e">>  \* 'deadline'

general_prompt_prefix == <<"A","n","s","w","e","r"," ","t","h","i","s"," ","g","r","a","d","u","a","t","e"," ","a","d","m","i","s","s","i","o","n","s"," ","q","u","e","s","t","i","o","n",":"," ">>  \* 'Answer this graduate admissions question: '

insight_prompt_prefix == <<"B","a","s","e","d"," ","o","n"," ","t","h","e","s","e"," ","f","a","c","u","l","t","y"," ","m","a","t","c","h","e","s"," ","f","o","r"," ","q","u","e","r","y"," ","'">>  \* "Based on these faculty matches for query '"

insight_prompt_suffix == <<"'",","," ","p","r","o","v","i","d","e"," ","b","r","i","e","f"," ","a","d","v","i","c","e",":"," ">>  \* "', provide brief advice: "

\* CostEffectiveLLMManager._fallback_response
_fallback_response(prompt) ==
    LET prompt_lower == Lower(prompt)
    IN  IF Contains(w_faculty, prompt_lower) /\ Contains(kw_hiring, prompt_lower)
        THEN Text("I found several faculty members who may be hiring.")
        ELSE IF Contains(w_program, prompt_lower)
                /\ Contains(w_requirement, prompt_lower)
        THEN Text("Most PhD programs require: GRE scores, transcripts, ...")
        ELSE IF Contains(w_deadline, prompt_lower)
        THEN Text("Application deadlines vary by program ...")
        ELSE Text("I'd be happy to help with your graduate admissions questions.")

\* CostEffectiveLLMManager.generate_response: the text returned and the
\* usage counter afterwards
LLM_generate_response(prompt, usage, available, fails, content, tokens) ==
    IF usage > max_daily_tokens
    THEN [text |-> _fallback_response(prompt), usage |-> usage]
    ELSE IF available
    THEN IF fails
         THEN [text |-> _fallback_response(prompt), usage |-> usage]
         ELSE [text |-> content, usage |-> usage + tokens]
    ELSE [text |-> _fallback_response(prompt), usage |-> usage]

\* the store-side filter and the post-query filter of
\* SmartFacultyAgent._search_firebase_faculty
_search_firebase_faculty(criteria, documents) ==
    SelectSeq(documents, LAMBDA f :
        /\ criteria.hiring_status # <<>>
              => f.hiring_status = Val(criteria.hiring_status)
        /\ research_area_filter(criteria, f))

SearchFailed ==
    [matches |-> <<>>, total_found |-> 0, ai_insights |-> EmptyText,
     sources |-> <<>>, usage_after |-> <<>>]

\* SmartFacultyAgent.search_faculty
Smart_search_faculty(q, ctx, documents, fail, usage, available, content, tokens) ==
    IF "retrieval" \in fail
    THEN SearchFailed
    ELSE LET criteria == _extract_search_criteria(q, ctx)
             faculty_results == _search_firebase_faculty(criteria, documents)
             scored_matches == Smart_score_faculty_matches(q, faculty_results)
             insight == LLM_generate_response(
                            insight_prompt_prefix \o q \o insight_prompt_suffix,
                            usage, available, "llm" \in fail, content, tokens)
         IN  [matches |-> Take(scored_matches, 10),
              total_found |-> Len(faculty_results),
              ai_insights |-> IF Len(scored_matches) > 0
                              THEN insight.text ELSE EmptyText,
              sources |-> <<[type |-> "firebase_search",
                             count |-> Len(faculty_results)]>>,
              usage_after |-> IF Len(scored_matches) > 0
                              THEN Some(insight.usage) ELSE <<>>]

\* SmartProgramAgent.search_programs
Smart_search_programs(q, documents, fail) ==
    IF "retrieval" \in fail
    THEN [matches |-> <<>>, total_found |-> 0, sources |-> <<>>]
    ELSE [matches |-> Take(Smart_score_program_matches(q, documents), 10),
          total_found |-> Len(documents),
          sources |-> <<[type |-> "firebase_search", count |-> Len(documents)]>>]

\* ChatOrchestrator._generate_faculty_response
_generate_faculty_response(result) ==
    IF result.matches = <<>>
    THEN Text("I couldn't find any faculty members matching your criteria.")
    ELSE Text("I found faculty members who might interest you:")
         \o [i \in 1..Len(Take(result.matches, 3)) |-> "match"]
         \o (IF result.ai_insights # EmptyText
             THEN Text("Tip:") \o result.ai_insights ELSE EmptyText)

\* ChatOrchestrator._generate_program_response
_generate_program_response(result) ==
    IF result.matches = <<>>
    THEN Text("I couldn't find any programs matching your criteria.")
    ELSE Text("I found programs that might interest you:")
         \o [i \in 1..Len(Take(result.matches, 3)) |-> "match"]

\* the confidence of a search answer: 0.8 if result["matches"] else 0.3
SearchConfidence_always_high(matches) == Times(8, 10, Unit)

SearchConfidence(matches) ==
    IF matches # <<>> THEN Times(8, 10, Unit) ELSE Times(3, 10, Unit)

Payload(response, faculty, programs, confidence, sources) ==
    [response |-> response, faculty_matches |-> faculty,
     program_matches |-> programs, confidence_score |-> confidence,
     sources |-> sources]

\* ChatOrchestrator.process_query: the payload and the usage counter after
Orchestrator_process_query(q, ctx, faculty_docs, program_docs, fail, usage, available, content, tokens) ==
    LET query_type == _classify_query(q)
        error == [payload |-> Payload(Text("I apologize, but I encountered an error processing your request."),
                                      <<>>, <<>>, 0, <<>>),
                  usage |-> usage]
    IN  IF query_type = faculty_search
        THEN LET result == Smart_search_faculty(q, ctx, faculty_docs, fail,
                                                usage, available, content, tokens)
                 after == IF result.usage_after = <<>>
                          THEN usage ELSE Val(result.usage_after)
             IN  IF "compose" \in fail
                 THEN [error EXCEPT !.usage = after]
                 ELSE [payload |-> Payload(_generate_faculty_response(result),
                                           result.matches, <<>>,
                                           SearchConfidence(result.matches),
                                           result.sources),
                       usage |-> after]
        ELSE IF query_type = program_search
        THEN LET result == Smart_search_programs(q, program_docs, fail)
             IN  IF "compose" \in fail
                 THEN error
                 ELSE [payload |-> Payload(_generate_program_response(result),
                                           <<>>, result.matches,
                                           SearchConfidence(result.matches),
                                           result.sources),
                       usage |-> usage]
        ELSE LET answer == LLM_generate_response(general_prompt_prefix \o q,
                               usage, available, "llm" \in fail, content, tokens)
             IN  [payload |-> Payload(answer.text, <<>>, <<>>,
                                      Times(6, 10, Unit), <<>>),
                  usage |-> answer.usage]

\* FacultyAgent.search_faculty
FacultyAgent_search_faculty(q, rows, fail) ==
    IF "retrieval" \in fail \/ "compose" \in fail
    THEN [matches |-> <<>>, sources |-> <<>>]
    ELSE [matches |-> Take(_score_faculty_matches(q, rows), 10),
          sources |-> <<[type |-> "database", count |-> Len(rows)],
                        [type |-> "vector_search", count |-> 0]>>]

\* RealDataAIAgent._generate_fallback_response: a string
_generate_fallback_response(data) ==
    IF data.faculty_matches # <<>>
    THEN Text("I found professors from real university websites:")
    ELSE IF data.program_matches # <<>>
    THEN Text("I found programs:")
    ELSE Text("No results found. Try searching for:")

WithHistory(p, recent) ==
    [k \in DOMAIN p \cup {"search_history"} |->
        IF k = "search_history" THEN recent ELSE p[k]]

\* the except clause of RealDataAIAgent._generate_ai_response
AIResponseOnError(data, recent) ==
    StrResult(_generate_fallback_response(data))

\* RealDataAIAgent._generate_ai_response
_generate_ai_response(data, fail, available, content, recent) ==
    LET faculty_count == Len(data.faculty_matches)
        program_count == Len(data.program_matches)
    IN  IF "compose" \in fail
        THEN AIResponseOnError(data, recent)
        ELSE IF faculty_count = 0 /\ program_count = 0
        THEN DictResult(WithHistory(
                 Payload(Text("I couldn't find any professors or programs matching your query."),
                         <<>>, <<>>, Times(1, 10, Unit), <<>>), recent))
        ELSE DictResult(WithHistory(
                 Payload(IF available /\ "llm" \notin fail /\ content # EmptyText
                         THEN content ELSE _generate_fallback_response(data),
                         Take(data.faculty_matches, 5),
                         Take(data.program_matches, 5),
                         Min(Times(9, 10, Unit),
                             Max(Times(3, 10, Unit), faculty_count * Times(2, 10, Unit))),
                         <<[type |-> "real_web_scraping"]>>), recent))

\* RealDataAIAgent.process_query
RealData_process_query(faculty_pages, program_pages, rows, fail, available, content) ==
    LET historical_data == IF "history" \in fail THEN <<>> ELSE rows
        recent == historical_data
        real_data == IF "retrieval" \in fail
                     THEN [faculty_matches |-> <<>>, program_matches |-> <<>>]
                     ELSE [faculty_matches |-> faculty_pages,
                           program_matches |-> program_pages]
    IN  IF historical_data # <<>>
        THEN IF "compose" \in fail
             THEN DictResult(WithHistory(
                      Payload(Text("I encountered an error while searching for real data."),
                              <<>>, <<>>, 0, <<>>), recent))
             ELSE DictResult(WithHistory(
                      Payload(Text("Found professors from your previous searches:"),
                              historical_data, <<>>, Times(9, 10, Unit),
                              <<[type |-> "search_history"]>>), recent))
        ELSE _generate_ai_response(real_data, fail, available, content, recent)

\* RealTimeDataOrchestrator._generate_response
RealTime_generate_response(data, fail, content) ==
    IF "llm" \in fail \/ "compose" \in fail
    THEN Payload(Text("I found faculty members and programs."),
                 Take(data.faculty_matches, 5), Take(data.program_matches, 5),
                 Times(5, 10, Unit), data.sources)
    ELSE Payload(content,
                 Take(data.faculty_matches, 5), Take(data.program_matches, 5),
                 Min(Times(9, 10, Unit),
                     Max(Times(3, 10, Unit),
                         (Len(data.faculty_matches) + Len(data.program_matches))
                             * Times(1, 10, Unit))),
                 data.sources)

\* RealTimeDataOrchestrator.process_query
RealTime_process_query(faculty_pages, program_pages, fail, content) ==
    LET real_time_data ==
            IF "retrieval" \in fail
            THEN EmptyCombined
            ELSE SourceDict(faculty_pages, program_pages,
                            <<[type |-> "university_website"]>>)
    IN  DictResult(RealTime_generate_response(real_time_data, fail, content))

\* ChatAgent._calculate_confidence
_calculate_confidence(faculty, programs) ==
    Min(Times(95, 100, Unit),
        (IF faculty # <<>> THEN Times(4, 10, Unit) ELSE 0)
        + (IF programs # <<>> THEN Times(4, 10, Unit) ELSE 0))

\* ChatAgent.generate_response
ChatAgent_generate_response(faculty, programs, fail, content) ==
    IF "llm" \in fail \/ "compose" \in fail
    THEN [response |-> Text("I apologize, but I'm having trouble generating a response right now."),
          confidence_score |-> 0]
    ELSE [response |-> content,
          confidence_score |-> _calculate_confidence(faculty, programs)]

(* ------------------------------ inputs -------------------------------- *)
StoredFaculty ==
    {<<>>,
     Numbered(<<[research_areas |-> <<robotics>>, hiring_status |-> "hiring",
                 hiring_probability |-> Unit, h_index |-> Some(50),
                 last_scraped |-> Some(0)],
                [research_areas |-> <<MachineLearning, robotics>>,
                 hiring_status |-> "maybe", hiring_probability |-> 0,
                 h_index |-> <<>>, last_scraped |-> <<>>]>>)}

StoredPrograms ==
    {<<>>,
     Numbered(<<[research_areas |-> <<robotics>>, funding_available |-> TRUE,
                 acceptance_rate |-> Some(Unit \div 20),
                 gre_required |-> FALSE]>>)}

HistoryRows == {<<>>, <<[faculty_name |-> "A"]>>}

LLMContents == {EmptyText, Text("Here is some advice.")}

\* daily_token_usage before the call: fresh, at the limit, past the limit
TokenUsages == {0, max_daily_tokens, max_daily_tokens + 120}

\* response.usage.total_tokens of one completion
CallTokens == {120}

InitRespond ==
    /\ FetchIdle
    /\ SessionIdle
    /\ ExtractIdle
    /\ ServiceIdle
    /\ query \in Range(RespondQueries)
    /\ user_context = <<>>
    /\ faculty_list \in StoredFaculty
    /\ program_list \in StoredPrograms
    /\ op = "idle"
    /\ label = <<>>
    /\ classify_result = NoResult
    /\ query_info = NoResult
    /\ scored = <<>>
    /\ failing \in FailureSets
    /\ llm_available \in BOOLEAN
    /\ llm_content \in LLMContents
    /\ daily_token_usage \in TokenUsages
    /\ history \in HistoryRows
    /\ payload = <<>>

respondFrame == <<query, user_context, faculty_list, program_list, label,
                  classify_result, query_info, scored, failing, llm_available,
                  llm_content, history, fetchVars, sessionVars, extractVars,
                  serviceVars>>

ChatOrchestratorProcessQuery ==
    /\ op = "idle"
    /\ \E tokens \in CallTokens :
        LET r == Orchestrator_process_query(query, user_context, faculty_list,
                     program_list, failing, daily_token_usage, llm_available,
                     llm_content, tokens)
        IN  /\ payload' = DictResult(r.payload)
            /\ daily_token_usage' = r.usage
    /\ op' = "ChatOrchestrator.process_query"
    /\ UNCHANGED respondFrame

FacultyAgentSearchFaculty ==
    /\ op = "idle"
    /\ payload' = DictResult(FacultyAgent_search_faculty(query, faculty_list, failing))
    /\ op' = "FacultyAgent.search_faculty"
    /\ UNCHANGED <<respondFrame, daily_token_usage>>

RealDataProcessQuery ==
    /\ op = "idle"
    /\ payload' = RealData_process_query(faculty_list, program_list, history,
                                         failing, llm_available, llm_content)
    /\ op' = "RealDataAIAgent.process_query"
    /\ UNCHANGED <<respondFrame, daily_token_usage>>

RealTimeProcessQuery ==
    /\ op = "idle"
    /\ payload' = RealTime_process_query(faculty_list, program_list, failing,
                                         llm_content)
    /\ op' = "RealTimeDataOrchestrator.process_query"
    /\ UNCHANGED <<respondFrame, daily_token_usage>>

ChatAgentGenerateResponse ==
    /\ op = "idle"
    /\ payload' = DictResult(ChatAgent_generate_response(faculty_list,
                                 program_list, failing, llm_content))
    /\ op' = "ChatAgent.generate_response"
    /\ UNCHANGED <<respondFrame, daily_token_usage>>

LLMManagerGenerateResponse ==
    /\ op = "idle"
    /\ \E tokens \in CallTokens :
        LET r == LLM_generate_response(general_prompt_prefix \o query,
                     daily_token_usage, llm_available, "llm" \in failing,
                     llm_content, tokens)
        IN  /\ payload' = StrResult(r.text)
            /\ daily_token_usage' = r.usage
    /\ op' = "CostEffectiveLLMManager.generate_response"
    /\ UNCHANGED respondFrame

NextRespond ==
    \/ ChatOrchestratorProcessQuery
    \/ FacultyAgentSearchFaculty
    \/ RealDataProcessQuery
    \/ RealTimeProcessQuery
    \/ ChatAgentGenerateResponse
    \/ LLMManagerGenerateResponse

SpecRespond == InitRespond /\ [][NextRespond]_vars

(* ------------------------ claims C14, C15, C16 ------------------------ *)
PayloadKeys ==
    {"response", "faculty_matches", "program_matches", "confidence_score",
     "sources"}

SearchQuery == _classify_query(query) \in {faculty_search, program_search}

\* C14: when the candidate retrieval fails, the query is answered with a
\* normal payload whose match lists are empty and whose confidence_score
\* is low (at most the 0.3 of a search without matches) or zero; the search
\* itself returns an empty match list.
C14_RetrievalFailureGivesEmptyMatches ==
    "retrieval" \in failing =>
        /\ (op = "ChatOrchestrator.process_query" /\ SearchQuery) =>
              /\ IsDict(payload)
              /\ PayloadKeys \subseteq DOMAIN payload.value
              /\ payload.value.faculty_matches = <<>>
              /\ payload.value.program_matches = <<>>
              /\ payload.value.response # EmptyText
              /\ payload.value.confidence_score \in 0..Times(3, 10, Unit)
        /\ op = "FacultyAgent.search_faculty" =>
              /\ IsDict(payload)
              /\ payload.value.matches = <<>>

\* a faculty search over a non-empty store whose retrieval failed was
\* answered with confidence 0.3
C14_Witness ==
    /\ op = "ChatOrchestrator.process_query"
    /\ failing = {"retrieval"}
    /\ _classify_query(query) = faculty_search
    /\ faculty_list # <<>>
    /\ payload.value.faculty_matches = <<>>
    /\ payload.value.confidence_score = Times(3, 10, Unit)

ProcessQueryOps ==
    {"ChatOrchestrator.process_query", "RealDataAIAgent.process_query",
     "RealTimeDataOrchestrator.process_query"}

\* C15: whatever steps fail, process_query returns a mapping that contains
\* response, faculty_matches, program_matches, confidence_score and sources.
C15_AlwaysFullPayload ==
    op \in ProcessQueryOps =>
        /\ IsDict(payload)
        /\ PayloadKeys \subseteq DOMAIN payload.value

GenerateResponseOps ==
    {"ChatAgent.generate_response", "CostEffectiveLLMManager.generate_response"}

\* the narrative text a generate_response call returned
ResponseText ==
    IF IsDict(payload) THEN payload.value.response ELSE payload.value

\* C16: generate_response always returns a non-empty text: when the LLM call
\* succeeds, fails, is skipped over the token budget, or returns empty
\* content.
C16_ResponseNeverEmpty ==
    op \in GenerateResponseOps => ResponseText # EmptyText

(* ---------------------- criteria extraction calls --------------------- *)
MaxCalls == 2   \* calls of one extractor in a run

faculty_research_keywords ==
    << [area |-> <<"m","a","c","h","i","n","e"," ","l","e","a","r","n","i","n","g">>,  \* 'machine learning'
        keywords |-> << <<"m","a","c","h","i","n","e"," ","l","e","a","r","n","i","n","g">>,
                      <<"m","l">>,
                      <<"a","r","t","i","f","i","c","i","a","l"," ","i","n","t","e","l","l","i","g","e","n","c","e">>,
                      <<"a","i">> >>],
       [area |-> <<"c","o","m","p","u","t","e","r"," ","v","i","s","i","o","n">>,  \* 'computer vision'
        keywords |-> << <<"c","o","m","p","u","t","e","r"," ","v","i","s","i","o","n">>,
                      <<"c","v">>,
                      <<"i","m","a","g","e"," ","p","r","o","c","e","s","s","i","n","g">>,
                      <<"v","i","s","u","a","l">> >>],
       [area |-> <<"n","a","t","u","r","a","l"," ","l","a","n","g","u","a","g","e"," ","p","r","o","c","e","s","s","i","n","g">>,  \* 'natural language processing'
        keywords |-> << <<"n","l","p">>,
                      <<"n","a","t","u","r","a","l"," ","l","a","n","g","u","a","g","e">>,
                      <<"t","e","x","t"," ","p","r","o","c","e","s","s","i","n","g">> >>],
       [area |-> <<"r","o","b","o","t","i","c","s">>,  \* 'robotics'
        keywords |-> << <<"r","o","b","o","t","i","c","s">>,
                      <<"r","o","b","o","t">>,
                      <<"a","u","t","o","n","o","m","o","u","s">> >>],
       [area |-> <<"s","y","s","t","e","m","s">>,  \* 'systems'
        keywords |-> << <<"s","y","s","t","e","m","s">>,
                      <<"d","i","s","t","r","i","b","u","t","e","d">>,
                      <<"o","p","e","r","a","t","i","n","g"," ","s","y","s","t","e","m","s">> >>],
       [area |-> <<"s","e","c","u","r","i","t","y">>,  \* 'security'
        keywords |-> << <<"s","e","c","u","r","i","t","y">>,
                      <<"c","r","y","p","t","o","g","r","a","p","h","y">>,
                      <<"p","r","i","v","a","c","y">> >>],
       [area |-> <<"t","h","e","o","r","y">>,  \* 'theory'
        keywords |-> << <<"t","h","e","o","r","y">>,
                      <<"a","l","g","o","r","i","t","h","m","s">>,
                      <<"c","o","m","p","l","e","x","i","t","y">> >>],
       [area |-> <<"d","a","t","a","b","a","s","e","s">>,  \* 'databases'
        keywords |-> << <<"d","a","t","a","b","a","s","e">>,
                      <<"d","a","t","a"," ","m","a","n","a","g","e","m","e","n","t">>,
                      <<"b","i","g"," ","d","a","t","a">> >>],
       [area |-> <<"n","e","t","w","o","r","k","s">>,  \* 'networks'
        keywords |-> << <<"n","e","t","w","o","r","k","i","n","g">>,
                      <<"n","e","t","w","o","r","k","s">>,
                      <<"p","r","o","t","o","c","o","l","s">> >>],
       [area |-> <<"h","c","i">>,  \* 'hci'
        keywords |-> << <<"h","c","i">>,
                      <<"h","u","m","a","n"," ","c","o","m","p","u","t","e","r"," ","i","n","t","e","r","a","c","t","i","o","n">>,
                      <<"u","s","e","r"," ","i","n","t","e","r","f","a","c","e">> >>]
    >>

program_research_keywords ==
    << [area |-> <<"m","a","c","h","i","n","e"," ","l","e","a","r","n","i","n","g">>,  \* 'machine learning'
        keywords |-> << <<"m","a","c","h","i","n","e"," ","l","e","a","r","n","i","n","g">>,
                      <<"m","l">>,
                      <<"a","r","t","i","f","i","c","i","a","l"," ","i","n","t","e","l","l","i","g","e","n","c","e">>,
                      <<"a","i">> >>],
       [area |-> <<"c","o","m","p","u","t","e","r"," ","v","i","s","i","o","n">>,  \* 'computer vision'
        keywords |-> << <<"c","o","m","p","u","t","e","r"," ","v","i","s","i","o","n">>,
                      <<"c","v">>,
                      <<"i","m","a","g","e"," ","p","r","o","c","e","s","s","i","n","g">> >>],
       [area |-> <<"n","a","t","u","r","a","l"," ","l","a","n","g","u","a","g","e"," ","p","r","o","c","e","s","s","i","n","g">>,  \* 'natural language processing'
        keywords |-> << <<"n","l","p">>,
                      <<"n","a","t","u","r","a","l"," ","l","a","n","g","u","a","g","e">> >>],
       [area |-> <<"r","o","b","o","t","i","c","s">>,  \* 'robotics'
        keywords |-> << <<"r","o","b","o","t","i","c","s">>,
                      <<"r","o","b","o","t">>,
                      <<"a","u","t","o","n","o","m","o","u","s">> >>],
       [area |-> <<"s","y","s","t","e","m","s">>,  \* 'systems'
        keywords |-> << <<"s","y","s","t","e","m","s">>,
                      <<"d","i","s","t","r","i","b","u","t","e","d">>,
                      <<"o","p","e","r","a","t","i","n","g"," ","s","y","s","t","e","m","s">> >>],
       [area |-> <<"s","e","c","u","r","i","t","y">>,  \* 'security'
        keywords |-> << <<"s","e","c","u","r","i","t","y">>,
                      <<"c","y","b","e","r","s","e","c","u","r","i","t","y">>,
                      <<"c","r","y","p","t","o","g","r","a","p","h","y">> >>],
       [area |-> <<"d","a","t","a"," ","s","c","i","e","n","c","e">>,  \* 'data science'
        keywords |-> << <<"d","a","t","a"," ","s","c","i","e","n","c","e">>,
                      <<"b","i","g"," ","d","a","t","a">>,
                      <<"a","n","a","l","y","t","i","c","s">> >>],
       [area |-> <<"s","o","f","t","w","a","r","e"," ","e","n","g","i","n","e","e","r","i","n","g">>,  \* 'software engineering'
        keywords |-> << <<"s","o","f","t","w","a","r","e"," ","e","n","g","i","n","e","e","r","i","n","g">>,
                      <<"s","o","f","t","w","a","r","e"," ","d","e","v","e","l","o","p","m","e","n","t">> >>]
    >>

degree_keywords ==
    << [area |-> <<"P","h","D">>,  \* 'PhD'
        keywords |-> << <<"p","h","d">>,
                      <<"d","o","c","t","o","r","a","t","e">>,
                      <<"d","o","c","t","o","r","a","l">>,
                      <<"p","h",".","d">> >>],
       [area |-> <<"M","S">>,  \* 'MS'
        keywords |-> << <<"m","s">>,
                      <<"m","a","s","t","e","r","s">>,
                      <<"m","a","s","t","e","r","'","s">>,
                      <<"m",".","s">>,
                      <<"m","s","c">> >>],
       [area |-> <<"M","E","n","g">>,  \* 'MEng'
        keywords |-> << <<"m","e","n","g">>,
                      <<"m",".","e","n","g">>,
                      <<"m","a","s","t","e","r"," ","o","f"," ","e","n","g","i","n","e","e","r","i","n","g">> >>],
       [area |-> <<"M","C","S">>,  \* 'MCS'
        keywords |-> << <<"m","c","s">>,
                      <<"m",".","c","s">>,
                      <<"m","a","s","t","e","r"," ","o","f"," ","c","o","m","p","u","t","e","r"," ","s","c","i","e","n","c","e">> >>]
    >>

phd_words ==
    << <<"p","h","d">>,  \* 'phd'
       <<"d","o","c","t","o","r","a","t","e">>,  \* 'doctorate'
       <<"d","o","c","t","o","r","a","l">>  \* 'doctoral'
    >>

ms_words ==
    << <<"m","s">>,  \* 'ms'
       <<"m","a","s","t","e","r">>,  \* 'master'
       <<"m","a","s","t","e","r","s">>  \* 'masters'
    >>

funding_words ==
    << <<"f","u","n","d","i","n","g">>,  \* 'funding'
       <<"f","u","n","d","e","d">>,  \* 'funded'
       <<"f","i","n","a","n","c","i","a","l">>  \* 'financial'
    >>

computer_science == <<"c","o","m","p","u","t","e","r"," ","s","c","i","e","n","c","e">>  \* 'computer science'

PhD == <<"P","h","D">>  \* 'PhD'

MS == <<"M","S">>  \* 'MS'

MSc == <<"M","S","c">>  \* 'MSc'

kw_financial == <<"f","i","n","a","n","c","i","a","l">>  \* 'financial'

QuantumKnitting == <<"Q","u","a","n","t","u","m"," ","K","n","i","t","t","i","n","g">>  \* 'Quantum Knitting'

Doctorate == <<"D","o","c","t","o","r","a","t","e">>  \* 'Doctorate'

ExtractQueries ==
    << <<"f","i","n","d"," ","p","r","o","f","e","s","s","o","r","s">>,  \* 'find professors'
       <<"r","o","b","o","t","i","c","s"," ","p","r","o","f","e","s","s","o","r","s"," ","h","i","r","i","n","g">>,  \* 'robotics professors hiring'
       <<"r","e","c","r","u","i","t","i","n","g"," ","m","l"," ","s","t","u","d","e","n","t","s">>,  \* 'recruiting ml students'
       <<"p","h","d"," ","p","r","o","g","r","a","m","s"," ","a","c","c","e","p","t","i","n","g">>,  \* 'phd programs accepting'
       <<"m","a","s","t","e","r","s"," ","f","u","n","d","i","n","g">>,  \* 'masters funding'
       <<"h","e","l","l","o">>  \* 'hello'
    >>

Extractors ==
    {"SmartFacultyAgent", "SmartProgramAgent", "FacultyAgent", "ProgramAgent",
     "RealTimeDataOrchestrator"}

\* list(set(items)): the distinct items, in an order the set determines
ListOfSet(items) ==
    LET S == Range(items)
    IN  CHOOSE s \in [1..Cardinality(S) -> S] : Range(s) = S

\* SmartProgramAgent._extract_program_criteria
_extract_program_criteria(q) ==
    LET query_lower == Lower(q)
    IN  [degree_types |-> IF AnyIn(phd_words, query_lower) THEN Some(<<PhD>>)
                          ELSE IF AnyIn(ms_words, query_lower)
                          THEN Some(<<MS, MSc>>) ELSE <<>>,
         funding_required |-> IF AnyIn(funding_words, query_lower)
                              THEN Some(TRUE) ELSE <<>>]

\* FacultyAgent._extract_research_areas without its default
FacultyAgent_extract_research_areas_no_default(q) ==
    AreasIn(faculty_research_keywords, Lower(q))

\* FacultyAgent._extract_research_areas
FacultyAgent_extract_research_areas(q) ==
    LET found_areas == AreasIn(faculty_research_keywords, Lower(q))
    IN  IF found_areas # <<>> THEN found_areas ELSE <<computer_science>>

\* FacultyAgent._extract_search_criteria; llm_fails: self.llm.ainvoke raises
FacultyAgent_extract_search_criteria(q, research_interests, llm_fails) ==
    IF llm_fails
    THEN [research_areas |-> <<computer_science>>, hiring_status |-> <<>>,
          min_hiring_probability |-> <<>>, degree_types |-> <<>>]
    ELSE [research_areas |->
              ListOfSet(FacultyAgent_extract_research_areas(q)
                        \o research_interests),
          hiring_status |-> IF Contains(kw_hiring, Lower(q))
                            THEN Some(<<"hiring", "maybe">>) ELSE <<>>,
          min_hiring_probability |-> IF Contains(kw_hiring, Lower(q))
                                     THEN Some(Unit \div 2) ELSE <<>>,
          degree_types |-> <<>>]

\* ProgramAgent._extract_degree_types
_extract_degree_types(q) == AreasIn(degree_keywords, Lower(q))

\* ProgramAgent._extract_research_areas
ProgramAgent_extract_research_areas(q) ==
    AreasIn(program_research_keywords, Lower(q))

\* ProgramAgent._extract_search_criteria
ProgramAgent_extract_search_criteria(q, degree_prefs, research_interests, llm_fails) ==
    IF llm_fails
    THEN [degree_types |-> <<PhD>>, research_areas |-> <<>>,
          funding_required |-> <<>>]
    ELSE LET degree_types == _extract_degree_types(q) \o degree_prefs
             research_areas == ProgramAgent_extract_research_areas(q)
                               \o research_interests
         IN  [degree_types |-> IF degree_types # <<>>
                               THEN ListOfSet(degree_types) ELSE <<PhD>>,
              research_areas |-> IF research_areas # <<>>
                                 THEN Some(ListOfSet(research_areas)) ELSE <<>>,
              funding_required |-> Some(Contains(kw_funding, Lower(q))
                                        \/ Contains(kw_financial, Lower(q)))]

\* what a caller context can carry: nothing, canonical labels, free text
CallerContexts ==
    {[research_interests |-> <<>>, degree_preferences |-> <<>>],
     [research_interests |-> <<robotics>>, degree_preferences |-> <<PhD>>],
     [research_interests |-> <<QuantumKnitting>>,
      degree_preferences |-> <<Doctorate>>]}

InitExtract ==
    /\ FetchIdle
    /\ SessionIdle
    /\ PipelineIdle
    /\ ServiceIdle
    /\ query \in Range(ExtractQueries)
    /\ \E context \in CallerContexts :
          /\ user_context = context.research_interests
          /\ degree_preferences = context.degree_preferences
    /\ faculty_list = <<>>
    /\ program_list = <<>>
    /\ op = "idle"
    /\ label = <<>>
    /\ classify_result = NoResult
    /\ query_info = NoResult
    /\ scored = <<>>
    /\ extracted = [e \in Extractors |-> <<>>]
    /\ calls = [e \in Extractors |-> 0]

\* extractor e returns criteria c
Returns(e, c, llm_failed) ==
    /\ calls[e] < MaxCalls
    /\ extracted' = [extracted EXCEPT
                        ![e] = Some([criteria |-> c, llm_failed |-> llm_failed])]
    /\ calls' = [calls EXCEPT ![e] = @ + 1]
    /\ UNCHANGED <<coreVars, degree_preferences, fetchVars, sessionVars,
                   pipelineVars, serviceVars>>

SmartExtractSearchCriteria ==
    Returns("SmartFacultyAgent",
            _extract_search_criteria(query, user_context), FALSE)

SmartExtractProgramCriteria ==
    Returns("SmartProgramAgent", _extract_program_criteria(query), FALSE)

FacultyAgentExtractSearchCriteria ==
    \E llm_fails \in BOOLEAN :
        Returns("FacultyAgent",
                FacultyAgent_extract_search_criteria(query, user_context,
                                                     llm_fails), llm_fails)

ProgramAgentExtractSearchCriteria ==
    \E llm_fails \in BOOLEAN :
        Returns("ProgramAgent",
                ProgramAgent_extract_search_criteria(query, degree_preferences,
                    user_context, llm_fails), llm_fails)

\* RealTimeDataOrchestrator._analyze_query when it falls back to the
\* keyword extraction
OrchestratorExtractKeywords ==
    Returns("RealTimeDataOrchestrator", _extract_keywords(query), TRUE)

NextExtract ==
    \/ SmartExtractSearchCriteria
    \/ SmartExtractProgramCriteria
    \/ FacultyAgentExtractSearchCriteria
    \/ ProgramAgentExtractSearchCriteria
    \/ OrchestratorExtractKeywords

SpecExtract == InitExtract /\ [][NextExtract]_vars

(* ----------------------- claims C17, C18, C19, C20 -------------------- *)
Called(e) == extracted[e] # <<>>
CriteriaOf(e) == Val(extracted[e]).criteria
LLMFailed(e) == Val(extracted[e]).llm_failed

HiringExtractors == {"SmartFacultyAgent", "FacultyAgent", "RealTimeDataOrchestrator"}

\* the hiring-focus flag of the criteria extractor e returned
HiringFlag(e) ==
    IF e = "RealTimeDataOrchestrator" THEN CriteriaOf(e).hiring_focus
    ELSE CriteriaOf(e).hiring_status # <<>>

\* C18: the hiring-focus flag is set exactly when the lowercased query
\* contains one of the words hiring, recruiting, accepting.
C18_HiringFlagIffHiringWord ==
    \A e \in HiringExtractors :
        Called(e) => (HiringFlag(e) <=> AnyIn(hiring_words, Lower(query)))

\* the research areas / degree types in the criteria of e; none when the
\* criteria have no such entry or it is None
ResearchAreasOf(e) ==
    LET c == CriteriaOf(e)
    IN  IF "research_areas" \notin DOMAIN c THEN <<>>
        ELSE IF e \in {"SmartFacultyAgent", "ProgramAgent"}
        THEN (IF c.research_areas = <<>> THEN <<>> ELSE Val(c.research_areas))
        ELSE c.research_areas

DegreeTypesOf(e) ==
    LET c == CriteriaOf(e)
    IN  IF "degree_types" \notin DOMAIN c THEN <<>>
        ELSE IF e = "SmartProgramAgent"
        THEN (IF c.degree_types = <<>> THEN <<>> ELSE Val(c.degree_types))
        ELSE c.degree_types

\* the keyword tables of extractor e
AreaTable(e) ==
    CASE e = "SmartFacultyAgent" -> research_keywords
      [] e = "FacultyAgent" -> faculty_research_keywords
      [] e = "ProgramAgent" -> program_research_keywords
      [] OTHER -> <<>>

AreaVocabulary(e) == {AreaTable(e)[k].area : k \in 1..Len(AreaTable(e))}

DegreeVocabulary(e) ==
    CASE e = "ProgramAgent" ->
            {degree_keywords[k].area : k \in 1..Len(degree_keywords)}
      [] e = "SmartProgramAgent" -> {PhD, MS, MSc}
      [] OTHER -> {}

\* the query matches no research-area and no degree keyword of any table,
\* and the caller supplied no context
NothingToExtract ==
    /\ \A e \in Extractors : AreasIn(AreaTable(e), Lower(query)) = <<>>
    /\ _extract_degree_types(query) = <<>>
    /\ ~AnyIn(phd_words, Lower(query)) /\ ~AnyIn(ms_words, Lower(query))
    /\ user_context = <<>>
    /\ degree_preferences = <<>>

DefaultExtractors == {"SmartFacultyAgent", "ProgramAgent", "FacultyAgent"}

\* C19 as stated: with nothing to extract, the criteria still hold a
\* non-empty research-area set and a non-empty degree-type set.
C19_DefaultsAlwaysPresent ==
    \A e \in DefaultExtractors :
        (Called(e) /\ NothingToExtract) =>
            /\ ResearchAreasOf(e) # <<>>
            /\ DegreeTypesOf(e) # <<>>

\* C19: with nothing to extract, FacultyAgent's criteria hold the default
\* research area "computer science" and no degree types; ProgramAgent's hold
\* the default degree type "PhD" and no research areas; SmartFacultyAgent's
\* hold neither.
C19_DefaultsPerExtractor ==
    NothingToExtract =>
        /\ Called("FacultyAgent") =>
              /\ ResearchAreasOf("FacultyAgent") = <<computer_science>>
              /\ DegreeTypesOf("FacultyAgent") = <<>>
        /\ Called("ProgramAgent") =>
              /\ DegreeTypesOf("ProgramAgent") = <<PhD>>
              /\ ResearchAreasOf("ProgramAgent") = <<>>
        /\ Called("SmartFacultyAgent") =>
              /\ ResearchAreasOf("SmartFacultyAgent") = <<>>
              /\ DegreeTypesOf("SmartFacultyAgent") = <<>>

\* the three extractors have run on a query with nothing to extract, the
\* LLM calls having succeeded
C19_Witness ==
    /\ NothingToExtract
    /\ \A e \in DefaultExtractors : Called(e) /\ ~LLMFailed(e)

\* C20: every research area and degree type in extracted criteria is a
\* canonical label of the extractor's keyword tables, also when the caller
\* context supplies research_interests or degree_preferences.
C20_ValuesFromVocabulary ==
    \A e \in {"SmartFacultyAgent", "SmartProgramAgent", "FacultyAgent",
              "ProgramAgent"} :
        Called(e) =>
            /\ Range(ResearchAreasOf(e)) \subseteq AreaVocabulary(e)
            /\ Range(DegreeTypesOf(e)) \subseteq DegreeVocabulary(e)

(* ------------- what each service model leaves alone ------------------- *)
baseVars == <<coreVars, fetchVars, sessionVars, pipelineVars, extractVars>>

BaseIdle ==
    /\ CoreIdle
    /\ FetchIdle
    /\ SessionIdle
    /\ PipelineIdle
    /\ ExtractIdle

outsideApi == <<baseVars,
              rateVars,
              jobVars,
              historyVars,
              tokenVars,
              scrapeVars,
              signalVars,
              workflowVars>>

OutsideApiIdle ==
    /\ BaseIdle
    /\ RateIdle
    /\ JobIdle
    /\ HistoryIdle
    /\ TokenIdle
    /\ ScrapeIdle
    /\ SignalIdle
    /\ WorkflowIdle

outsideRate == <<baseVars,
               apiVars,
               jobVars,
               historyVars,
               tokenVars,
               scrapeVars,
               signalVars,
               workflowVars>>

OutsideRateIdle ==
    /\ BaseIdle
    /\ ApiIdle
    /\ JobIdle
    /\ HistoryIdle
    /\ TokenIdle
    /\ ScrapeIdle
    /\ SignalIdle
    /\ WorkflowIdle

outsideJob == <<baseVars,
              apiVars,
              rateVars,
              historyVars,
              tokenVars,
              scrapeVars,
              signalVars,
              workflowVars>>

OutsideJobIdle ==
    /\ BaseIdle
    /\ ApiIdle
    /\ RateIdle
    /\ HistoryIdle
    /\ TokenIdle
    /\ ScrapeIdle
    /\ SignalIdle
    /\ WorkflowIdle

outsideHistory == <<baseVars,
                  apiVars,
                  rateVars,
                  jobVars,
                  tokenVars,
                  scrapeVars,
                  signalVars,
                  workflowVars>>

OutsideHistoryIdle ==
    /\ BaseIdle
    /\ ApiIdle
    /\ RateIdle
    /\ JobIdle
    /\ TokenIdle
    /\ ScrapeIdle
    /\ SignalIdle
    /\ WorkflowIdle

\* the generate_response calls work on the manager's usage counter
outsideToken == <<coreVars, fetchVars, sessionVars, extractVars, failing,
                  llm_content, history, payload,
                  apiVars,
                  rateVars,
                  jobVars,
                  historyVars,
                  scrapeVars,
                  signalVars,
                  workflowVars>>

OutsideTokenIdle ==
    /\ CoreIdle
    /\ FetchIdle
    /\ SessionIdle
    /\ ExtractIdle
    /\ failing = {}
    /\ llm_content = <<>>
    /\ history = <<>>
    /\ payload = <<>>
    /\ ApiIdle
    /\ RateIdle
    /\ JobIdle
    /\ HistoryIdle
    /\ ScrapeIdle
    /\ SignalIdle
    /\ WorkflowIdle

outsideScrape == <<baseVars,
                 apiVars,
                 rateVars,
                 jobVars,
                 historyVars,
                 tokenVars,
                 signalVars,
                 workflowVars>>

OutsideScrapeIdle ==
    /\ BaseIdle
    /\ ApiIdle
    /\ RateIdle
    /\ JobIdle
    /\ HistoryIdle
    /\ TokenIdle
    /\ SignalIdle
    /\ WorkflowIdle

outsideSignal == <<baseVars,
                 apiVars,
                 rateVars,
                 jobVars,
                 historyVars,
                 tokenVars,
                 scrapeVars,
                 workflowVars>>

OutsideSignalIdle ==
    /\ BaseIdle
    /\ ApiIdle
    /\ RateIdle
    /\ JobIdle
    /\ HistoryIdle
    /\ TokenIdle
    /\ ScrapeIdle
    /\ WorkflowIdle

outsideWorkflow == <<baseVars,
                   apiVars,
                   rateVars,
                   jobVars,
                   historyVars,
                   tokenVars,
                   scrapeVars,
                   signalVars>>

OutsideWorkflowIdle ==
    /\ BaseIdle
    /\ ApiIdle
    /\ RateIdle
    /\ JobIdle
    /\ HistoryIdle
    /\ TokenIdle
    /\ ScrapeIdle
    /\ SignalIdle

(* ------------------- the chat query endpoints ------------------------- *)
\* the two handlers registered for POST /api/v1/chat/query: main.py's
\* chat_query(request: dict), which tests/conftest.py serves as app.main.app,
\* and the api_v1 router's chat_query(request: ChatRequest, current_user, db)

Hello == <<"H", "e", "l", "l", "o">>

Blank == <<" ", " ">>

\* request bodies: the message key missing, "", blanks only, or a text
Messages == {<<>>, Some(<<>>), Some(Blank), Some(Hello)}

\* what the Authorization header carries
Credentials ==
    {"none", "bad_token", "no_sub", "unknown_user", "inactive_user", "valid"}

StoredSession == "s1"

NewSession == "uuid4"

SessionIds == {<<>>, Some(StoredSession), Some("s9")}

ApiRequests ==
    [message : Messages, credentials : Credentials, session_id : SessionIds]

\* fastapi.security.HTTPBearer answers a missing header itself; the status
\* is 403 or 401 depending on the framework release that is installed
HTTPBearerMissing == {401, 403}

\* get_current_active_user over get_current_user: 0 when the user is
\* admitted, otherwise the status of the HTTPException the dependency raises
get_current_user(credentials, missing_status) ==
    CASE credentials = "none"          -> missing_status
      [] credentials = "bad_token"     -> 401
      [] credentials = "no_sub"        -> 401
      [] credentials = "unknown_user"  -> 401
      [] credentials = "inactive_user" -> 400
      [] OTHER                         -> 0

\* ChatRequest: message is a required str without a length constraint
ChatRequestValid(req) == req.message # <<>>

InitApi ==
    /\ OutsideApiIdle
    /\ api_request \in {Some(r) : r \in ApiRequests}
    /\ workflow_instance \in BOOLEAN
    /\ db_sessions = {StoredSession}
    /\ db_messages = <<>>
    /\ agent_calls = 0
    /\ status_code = 0
    /\ served_by = "none"

\* the response leaves with status s; nothing was stored, nobody was called
Rejected(s) ==
    /\ status_code' = s
    /\ UNCHANGED <<db_sessions, db_messages, agent_calls>>

\* main.py chat_query: no dependency, the body is a plain dict; the
\* HTTPException(400) for an empty message is raised inside the try block
\* and the except Exception clause turns it into a 500
MainChatQuery ==
    /\ served_by = "none"
    /\ served_by' = "main"
    /\ LET req == Val(api_request)
           message == IF req.message = <<>> THEN <<>>
                      ELSE Strip(Val(req.message))
       IN  IF message = <<>>
           THEN Rejected(500)
           ELSE \E agent_raises \in BOOLEAN :
                   /\ agent_calls' = agent_calls + 1
                   /\ status_code' = IF agent_raises THEN 500 ELSE 200
                   /\ UNCHANGED <<db_sessions, db_messages>>
    /\ UNCHANGED <<api_request, workflow_instance, outsideApi>>

\* api_v1 chat_query: the dependencies and the body validation run before
\* the handler body; every exception of the body becomes a 500
ApiV1ChatQuery ==
    /\ served_by = "none"
    /\ served_by' = "api_v1"
    /\ \E missing_status \in HTTPBearerMissing, workflow_raises \in BOOLEAN :
        LET req == Val(api_request)
            denied == get_current_user(req.credentials, missing_status)
            session_id == IF req.session_id = <<>> THEN NewSession
                          ELSE Val(req.session_id)
            sessions == IF req.session_id = <<>>
                        THEN db_sessions \cup {NewSession}
                        ELSE db_sessions
            user_message == [session_id |-> session_id, role |-> "user"]
            reply == [session_id |-> session_id, role |-> "assistant"]
        IN  CASE denied # 0 -> Rejected(denied)
              [] denied = 0 /\ ~ChatRequestValid(req) -> Rejected(422)
              [] denied = 0 /\ ChatRequestValid(req) /\ ~workflow_instance ->
                    Rejected(500)
              [] OTHER ->
                    /\ db_sessions' = sessions
                    /\ IF session_id \notin sessions
                       THEN \* add_message_to_session raises ValueError
                            /\ status_code' = 500
                            /\ UNCHANGED <<db_messages, agent_calls>>
                       ELSE /\ agent_calls' = agent_calls + 1
                            /\ IF workflow_raises
                               THEN /\ status_code' = 500
                                    /\ db_messages' =
                                         Append(db_messages, user_message)
                               ELSE /\ status_code' = 200
                                    /\ db_messages' =
                                         db_messages \o <<user_message, reply>>
    /\ UNCHANGED <<api_request, workflow_instance, outsideApi>>

NextApi ==
    \/ MainChatQuery
    \/ ApiV1ChatQuery

SpecApi == InitApi /\ [][NextApi]_vars

Responded == status_code # 0

\* C21: a chat query whose message is empty is answered with status 422
\* and is not passed to the agent or workflow
C21_EmptyMessageRejected422 ==
    (Responded /\ Val(api_request).message = Some(<<>>)
               /\ Val(api_request).credentials = "valid")
        => (status_code = 422 /\ agent_calls = 0)

\* C22: a chat query without credentials is answered with status 401 and
\* creates no chat session, stores no message and invokes no agent
C22_NoCredentialsRejected401 ==
    (Responded /\ Val(api_request).credentials = "none")
        => /\ status_code = 401
           /\ db_sessions = {StoredSession}
           /\ db_messages = <<>>
           /\ agent_calls = 0

(* ------------------- the rate limit middleware ------------------------ *)
\* RateLimitMiddleware.dispatch for the requests of one client IP on a
\* rate-limited path, with a Redis client configured. Every await of
\* dispatch is a point where another request's dispatch can run.

RATE_LIMIT_REQUESTS == 2   \* settings.RATE_LIMIT_REQUESTS
MaxRequests == 4           \* requests the IP sends
MaxExpiries == 1           \* times the key's expiry (RATE_LIMIT_WINDOW) strikes

Requests == 1..MaxRequests

\* the stored value; ex tells whether the key carries an expiry
RedisValue(n, ex) == Some([value |-> n, ex |-> ex])

InitRate ==
    /\ OutsideRateIdle
    /\ redis_key = <<>>
    /\ request_pc = [r \in Requests |-> "new"]
    /\ current_requests = [r \in Requests |-> <<>>]
    /\ passed_on = 0
    /\ expiries = 0

\* current_requests = await redis_client.get(key), and the comparison that
\* follows it without an await
RedisGet(r) ==
    /\ request_pc[r] = "new"
    /\ current_requests' = [current_requests EXCEPT ![r] = redis_key]
    /\ request_pc' = [request_pc EXCEPT ![r] =
          IF redis_key = <<>> THEN "set"
          ELSE IF Val(redis_key).value >= RATE_LIMIT_REQUESTS THEN "rejected"
          ELSE "incr"]
    /\ UNCHANGED <<redis_key, passed_on, expiries, outsideRate>>

\* await redis_client.set(key, 1, ex=settings.RATE_LIMIT_WINDOW), then
\* call_next(request)
RedisSet(r) ==
    /\ request_pc[r] = "set"
    /\ redis_key' = RedisValue(1, TRUE)
    /\ request_pc' = [request_pc EXCEPT ![r] = "passed"]
    /\ passed_on' = passed_on + 1
    /\ UNCHANGED <<current_requests, expiries, outsideRate>>

\* INCR adds one to the stored value; on an absent key it stores 1 without
\* an expiry
Incr(key) ==
    IF key = <<>> THEN RedisValue(1, FALSE)
    ELSE RedisValue(Val(key).value + 1, Val(key).ex)

\* await redis_client.incr(key), then call_next(request)
RedisIncr(r) ==
    /\ request_pc[r] = "incr"
    /\ redis_key' = Incr(redis_key)
    /\ request_pc' = [request_pc EXCEPT ![r] = "passed"]
    /\ passed_on' = passed_on + 1
    /\ UNCHANGED <<current_requests, expiries, outsideRate>>

\* Redis drops the key when its expiry strikes: a new window begins
KeyExpires ==
    /\ redis_key # <<>>
    /\ Val(redis_key).ex
    /\ expiries < MaxExpiries
    /\ redis_key' = <<>>
    /\ passed_on' = 0
    /\ expiries' = expiries + 1
    /\ UNCHANGED <<request_pc, current_requests, outsideRate>>

NextRate ==
    \/ \E r \in Requests : RedisGet(r)
    \/ \E r \in Requests : RedisSet(r)
    \/ \E r \in Requests : RedisIncr(r)
    \/ KeyExpires

SpecRate == InitRate /\ [][NextRate]_vars

\* C23: within one window at most RATE_LIMIT_REQUESTS requests of the IP
\* are passed on to the application, whatever the interleaving
C23_AtMostLimitPassed == passed_on <= RATE_LIMIT_REQUESTS

(* ------------------- the university scrape jobs ----------------------- *)
\* ScrapingOrchestrator._run_university_scraping: the pending faculty jobs
\* run as concurrent tasks under one semaphore; every await of a job is a
\* point where another job can run. FirebaseManager.update_document and
\* query_collection log an error of the store and return False or [].

MaxJobs == 2          \* pending faculty jobs one run picks up
max_concurrent == 5   \* ScrapingOrchestrator.max_concurrent

Jobs == 1..MaxJobs

Universities == {"MIT", "Stanford"}

\* the faculty member the scraped page of a university describes
FacultyOn(university) == [name |-> "Ada", university_name |-> university]

FacultyDoc(id, university) ==
    [id |-> id, name |-> "Ada", university_name |-> university]

\* firebase.query_collection('faculty', [name ==, university_name ==], limit=1)
QueryFaculty(docs, member) ==
    LET hits == SelectSeq(docs, LAMBDA doc :
                    /\ doc.name = member.name
                    /\ doc.university_name = member.university_name)
    IN  IF hits = <<>> THEN <<>> ELSE <<hits[1]>>

InitJobs ==
    /\ OutsideJobIdle
    /\ job_target \in [Jobs -> Universities]
    /\ job_pc = [j \in Jobs |-> "queued"]
    /\ job_status = [j \in Jobs |-> "pending"]
    /\ status_log = [j \in Jobs |-> <<"pending">>]
    /\ existing = [j \in Jobs |-> <<>>]
    /\ permits = max_concurrent
    /\ faculty_collection \in {<<>>, <<FacultyDoc(1, "MIT")>>}
    /\ scraping_returned = FALSE

\* update_document('scrape_jobs', job['id'], {'status': status, ...}):
\* the document changes only when the store accepts the update
UpdateStatus(j, status, ok) ==
    IF ok
    THEN /\ job_status' = [job_status EXCEPT ![j] = status]
         /\ status_log' = [status_log EXCEPT ![j] = Append(@, status)]
    ELSE UNCHANGED <<job_status, status_log>>

Goto(j, pc) == job_pc' = [job_pc EXCEPT ![j] = pc]

\* async with semaphore
AcquireSemaphore(j) ==
    /\ job_pc[j] = "queued"
    /\ permits > 0
    /\ permits' = permits - 1
    /\ Goto(j, "mark_running")
    /\ UNCHANGED <<job_target, job_status, status_log, existing, faculty_collection,
                   scraping_returned, outsideJob>>

MarkRunning(j) ==
    /\ job_pc[j] = "mark_running"
    /\ \E ok \in BOOLEAN : UpdateStatus(j, "running", ok)
    /\ Goto(j, "lookup")
    /\ UNCHANGED <<job_target, existing, permits, faculty_collection,
                   scraping_returned, outsideJob>>

\* the universities query; an empty answer raises "University not found"
LookupUniversity(j) ==
    /\ job_pc[j] = "lookup"
    /\ \E found \in BOOLEAN : Goto(j, IF found THEN "scrape" ELSE "except")
    /\ UNCHANGED <<job_target, job_status, status_log, existing, permits,
                   faculty_collection, scraping_returned, outsideJob>>

\* _scrape_faculty_page returns the member's data or None
ScrapeFacultyPage(j) ==
    /\ job_pc[j] = "scrape"
    /\ \E data \in BOOLEAN :
          Goto(j, IF data THEN "save_query" ELSE "mark_completed")
    /\ UNCHANGED <<job_target, job_status, status_log, existing, permits,
                   faculty_collection, scraping_returned, outsideJob>>

\* _save_faculty, up to its first await: existing = await query_collection
SaveFacultyQuery(j) ==
    /\ job_pc[j] = "save_query"
    /\ \E ok \in BOOLEAN :
          existing' = [existing EXCEPT ![j] =
              IF ok THEN QueryFaculty(faculty_collection, FacultyOn(job_target[j]))
              ELSE <<>>]
    /\ Goto(j, "save_write")
    /\ UNCHANGED <<job_target, job_status, status_log, permits, faculty_collection,
                   scraping_returned, outsideJob>>

\* _save_faculty after the query: update the document found, else create
SaveFacultyWrite(j) ==
    /\ job_pc[j] = "save_write"
    /\ \E ok \in BOOLEAN :
          faculty_collection' =
              IF existing[j] = <<>> /\ ok
              THEN Append(faculty_collection,
                          FacultyDoc(Len(faculty_collection) + 1, job_target[j]))
              ELSE faculty_collection
    /\ Goto(j, "mark_completed")
    /\ UNCHANGED <<job_target, job_status, status_log, existing, permits,
                   scraping_returned, outsideJob>>

MarkCompleted(j) ==
    /\ job_pc[j] = "mark_completed"
    /\ \E ok \in BOOLEAN : UpdateStatus(j, "completed", ok)
    /\ Goto(j, "sleep")
    /\ UNCHANGED <<job_target, existing, permits, faculty_collection,
                   scraping_returned, outsideJob>>

\* the delay ends and the semaphore is released
FinishJob(j) ==
    /\ job_pc[j] = "sleep"
    /\ permits' = permits + 1
    /\ Goto(j, "done")
    /\ UNCHANGED <<job_target, job_status, status_log, existing, faculty_collection,
                   scraping_returned, outsideJob>>

\* the except clause: mark the job failed, then leave the semaphore
MarkFailed(j) ==
    /\ job_pc[j] = "except"
    /\ \E ok \in BOOLEAN : UpdateStatus(j, "failed", ok)
    /\ permits' = permits + 1
    /\ Goto(j, "done")
    /\ UNCHANGED <<job_target, existing, faculty_collection, scraping_returned,
                   outsideJob>>

\* asyncio.gather has collected every task
ScrapingReturns ==
    /\ ~scraping_returned
    /\ \A j \in Jobs : job_pc[j] = "done"
    /\ scraping_returned' = TRUE
    /\ UNCHANGED <<job_target, job_pc, job_status, status_log, existing,
                   permits, faculty_collection, outsideJob>>

NextJobs ==
    \/ \E j \in Jobs : AcquireSemaphore(j)
    \/ \E j \in Jobs : MarkRunning(j)
    \/ \E j \in Jobs : LookupUniversity(j)
    \/ \E j \in Jobs : ScrapeFacultyPage(j)
    \/ \E j \in Jobs : SaveFacultyQuery(j)
    \/ \E j \in Jobs : SaveFacultyWrite(j)
    \/ \E j \in Jobs : MarkCompleted(j)
    \/ \E j \in Jobs : FinishJob(j)
    \/ \E j \in Jobs : MarkFailed(j)
    \/ ScrapingReturns

SpecJobs == InitJobs /\ [][NextJobs]_vars

IsPrefixOf(s, t) == Len(s) <= Len(t) /\ SubSeq(t, 1, Len(s)) = s

\* C24: a picked-up job's status moves only along pending -> running ->
\* completed or pending -> running -> failed, and once
\* _run_university_scraping has returned no picked-up job is pending or
\* running
C24_JobLifecycle ==
    \A j \in Jobs :
        /\ \/ IsPrefixOf(status_log[j], <<"pending", "running", "completed">>)
           \/ IsPrefixOf(status_log[j], <<"pending", "running", "failed">>)
        /\ scraping_returned => job_status[j] \notin {"pending", "running"}

\* C25: the faculty collection never holds two documents with the same
\* (name, university_name)
C25_NoDuplicateFaculty ==
    \A a, b \in DOMAIN faculty_collection :
        (/\ faculty_collection[a].name = faculty_collection[b].name
         /\ faculty_collection[a].university_name = faculty_collection[b].university_name)
            => a = b

(* ------------------- the search history database ---------------------- *)
\* RealDataAIAgent.process_query against the rows its earlier calls have
\* left in search_history.db

MaxFetches == 2   \* calls that go to the web in one run

q_mit == <<"m", "i", "t">>
q_mit_ai == <<"M", "I", "T", " ", "a", "i">>
q_m_t == <<"m", "_", "t">>
q_cmu == <<"c", "m", "u">>

HistoryQueries == {q_mit, q_mit_ai, q_m_t, q_cmu}

Ada == [name |-> <<"A", "d", "a">>, university |-> <<"M", "I", "T">>,
        research_areas |-> <<robotics>>]

Bob == [name |-> <<"B", "o", "b">>, university |-> <<"C", "M", "U">>,
        research_areas |-> <<>>]

\* faculty_matches that _fetch_real_data can come back with
WebResults == {<<>>, <<Ada>>, <<Ada, Bob>>}

\* SQLite's text LIKE pattern: % is any run of characters, _ any one
\* character, letters compare without case
RECURSIVE Like(_, _)
Like(text, pattern) ==
    IF pattern = <<>> THEN text = <<>>
    ELSE IF Head(pattern) = "%"
    THEN \/ Like(text, Tail(pattern))
         \/ text # <<>> /\ Like(Tail(text), pattern)
    ELSE /\ text # <<>>
         /\ \/ Head(pattern) = "_"
            \/ LowerChar(Head(pattern)) = LowerChar(Head(text))
         /\ Like(Tail(text), Tail(pattern))

\* f'%{query}%'
Anywhere(q) == <<"%">> \o q \o <<"%">>

Reverse(s) == [i \in 1..Len(s) |-> s[Len(s) + 1 - i]]

\* _get_search_history without the query column
_get_search_history_names_only(rows, q) ==
    Take(Reverse(SelectSeq(rows, LAMBDA row :
            \/ Like(row.faculty_name, Anywhere(q))
            \/ Like(row.university, Anywhere(q)))), 10)

\* RealDataAIAgent._get_search_history when the database answers
_get_search_history(rows, q) ==
    Take(Reverse(SelectSeq(rows, LAMBDA row :
            \/ Like(row.query, Anywhere(q))
            \/ Like(row.faculty_name, Anywhere(q))
            \/ Like(row.university, Anywhere(q)))), 10)

\* the row INSERT OR REPLACE writes for one faculty match; the table has
\* no unique column besides its autoincrement id, so every row is new
HistoryRow(q, faculty) ==
    [query |-> q, faculty_name |-> faculty.name,
     university |-> faculty.university,
     research_areas |-> faculty.research_areas]

\* RealDataAIAgent._save_search_results: all rows or, on an error, none
_save_search_results(rows, q, data, fails) ==
    IF fails THEN rows
    ELSE rows \o [i \in 1..Len(data.faculty_matches) |->
                     HistoryRow(q, data.faculty_matches[i])]

\* _get_recent_searches: the distinct queries of the table
_get_recent_searches(rows) == {rows[i].query : i \in DOMAIN rows}

\* RealDataAIAgent._format_historical_response
_format_historical_response(historical_data, recent) ==
    LET faculty_matches ==
            [i \in 1..Len(historical_data) |->
                [name |-> historical_data[i].faculty_name,
                 university |-> historical_data[i].university,
                 research_areas |-> historical_data[i].research_areas,
                 from_history |-> TRUE]]
    IN  DictResult(WithHistory(
            Payload(Text("Found professors from your previous searches:"),
                    faculty_matches, <<>>, Times(9, 10, Unit),
                    <<[type |-> "search_history"]>>), recent))

\* the payload of process_query's own except clause
ProcessQueryError(recent) ==
    DictResult(WithHistory(
        Payload(Text("I encountered an error while searching for real data."),
                <<>>, <<>>, 0, <<>>), recent))

InitHistory ==
    /\ OutsideHistoryIdle
    /\ search_history = <<>>
    /\ web_fetches = 0
    /\ saved_queries = {}
    /\ last_call = <<>>

\* RealDataAIAgent.process_query(q)
RealDataProcessQueryOnDb(q) ==
    /\ UNCHANGED outsideHistory
    /\ \E lookup_fails \in BOOLEAN :
        LET historical_data == IF lookup_fails THEN <<>>
                               ELSE _get_search_history(search_history, q)
            recent == _get_recent_searches(search_history)
            call == [query |-> q, saved_before |-> q \in saved_queries,
                     lookup_failed |-> lookup_fails]
            Done(went_to_web, wrote_rows, result) ==
                last_call' = Some(call @@ [fetched |-> went_to_web,
                                           wrote |-> wrote_rows,
                                           payload |-> result])
        IN  IF historical_data # <<>>
            THEN /\ Done(FALSE, FALSE,
                         _format_historical_response(historical_data, recent))
                 /\ UNCHANGED <<search_history, web_fetches, saved_queries>>
            ELSE /\ web_fetches < MaxFetches
                 /\ web_fetches' = web_fetches + 1
                 /\ \/ \* _fetch_real_data raises
                       /\ Done(TRUE, FALSE, ProcessQueryError(recent))
                       /\ UNCHANGED <<search_history, saved_queries>>
                    \/ \E faculty \in WebResults, save_fails \in BOOLEAN :
                         LET real_data == [faculty_matches |-> faculty,
                                           program_matches |-> <<>>]
                             saved == _save_search_results(search_history, q,
                                          real_data, save_fails)
                         IN  /\ search_history' = saved
                             /\ saved_queries' =
                                   IF saved # search_history
                                   THEN saved_queries \cup {q}
                                   ELSE saved_queries
                             /\ Done(TRUE, saved # search_history,
                                     _generate_ai_response(real_data, {},
                                         FALSE, EmptyText,
                                         _get_recent_searches(saved)))

NextHistory == \E q \in HistoryQueries : RealDataProcessQueryOnDb(q)

SpecHistory == InitHistory /\ [][NextHistory]_vars

\* the latest call was made for a query that an earlier call had saved a
\* faculty row for
LaterCall == last_call # <<>> /\ Val(last_call).saved_before

AnsweredFromHistory(call) ==
    /\ ~call.fetched
    /\ ~call.wrote
    /\ IsDict(call.payload)
    /\ call.payload.value.confidence_score = Times(9, 10, Unit)
    /\ call.payload.value.faculty_matches # <<>>
    /\ \A i \in DOMAIN call.payload.value.faculty_matches :
          call.payload.value.faculty_matches[i].from_history
    /\ call.payload.value.sources = <<[type |-> "search_history"]>>

MaxLLMCalls == 3   \* generate_response calls in one run

LLMCalls == 1..MaxLLMCalls

\* response.usage.total_tokens of a completion
ResponseTokens == {80, 120}

LargestResponse == CHOOSE t \in ResponseTokens : \A u \in ResponseTokens : u <= t

\* the counter when the calls arrive: fresh, just below the limit, at it
StartUsages == {0, max_daily_tokens - 120, max_daily_tokens}

InitTokens ==
    /\ OutsideTokenIdle
    /\ daily_token_usage \in StartUsages
    /\ llm_available \in BOOLEAN
    /\ llm_call_pc = [c \in LLMCalls |-> "new"]
    /\ llm_call_result = [c \in LLMCalls |-> "none"]

\* generate_response up to its await: the limit test and the client test
BeginGenerateResponse(c) ==
    /\ llm_call_pc[c] = "new"
    /\ IF daily_token_usage > max_daily_tokens \/ ~llm_available
       THEN /\ llm_call_pc' = [llm_call_pc EXCEPT ![c] = "done"]
            /\ llm_call_result' = [llm_call_result EXCEPT ![c] = "fallback"]
       ELSE /\ llm_call_pc' = [llm_call_pc EXCEPT ![c] = "awaiting"]
            /\ UNCHANGED llm_call_result
    /\ UNCHANGED <<daily_token_usage, llm_available, outsideToken>>

\* the completion arrives: the usage is added and the content returned;
\* a completion that raises is answered by the fallback
CompletionArrives(c) ==
    /\ llm_call_pc[c] = "awaiting"
    /\ llm_call_pc' = [llm_call_pc EXCEPT ![c] = "done"]
    /\ \/ \E total_tokens \in ResponseTokens :
            /\ daily_token_usage' = daily_token_usage + total_tokens
            /\ llm_call_result' = [llm_call_result EXCEPT ![c] = "content"]
       \/ /\ llm_call_result' = [llm_call_result EXCEPT ![c] = "fallback"]
          /\ UNCHANGED daily_token_usage
    /\ UNCHANGED <<llm_available, outsideToken>>

NextTokens ==
    \/ \E c \in LLMCalls : BeginGenerateResponse(c)
    \/ \E c \in LLMCalls : CompletionArrives(c)

SpecTokens == InitTokens /\ [][NextTokens]_vars

\* C27: daily_token_usage never exceeds max_daily_tokens by more than the
\* total_tokens of a single LLM response
C27_UsageOvershootBounded ==
    daily_token_usage <= max_daily_tokens + LargestResponse

(* ------------------- the scraper's per-domain delay ------------------- *)
\* BaseScraper.fetch_url called again and again by one caller, each call
\* awaited before the next; time passes between and during the calls

delay == 3          \* BaseScraper.delay, in ticks
MaxTime == 7        \* ticks the clock runs
MaxUrlCalls == 3    \* fetch_url calls in one run

Domains == {"cs.mit.edu", "cs.cmu.edu"}

InitScrape ==
    /\ OutsideScrapeIdle
    /\ clock = 0
    /\ request_history = [d \in {} |-> 0]
    /\ scraper_pc = "idle"
    /\ pending = <<>>
    /\ request_starts = [d \in Domains |-> <<>>]
    /\ fetch_calls = 0

\* time passes
Tick ==
    /\ clock < MaxTime
    /\ clock' = clock + 1
    /\ UNCHANGED <<request_history, scraper_pc, pending, request_starts,
                   fetch_calls, outsideScrape>>

\* how long rate_limit sleeps for a call on domain at current_time
WaitTime(seen, domain, current_time) ==
    IF domain \in DOMAIN seen /\ current_time - seen[domain] < delay
    THEN delay - (current_time - seen[domain])
    ELSE 0

\* self.request_history[domain] = current_time
Record(seen, domain, current_time) ==
    [d \in DOMAIN seen \cup {domain} |->
        IF d = domain THEN current_time ELSE seen[d]]

\* fetch_url(url) up to the first await of rate_limit: robots.txt refuses
\* the url, or rate_limit reads the clock and either sleeps or records
CallFetchUrl(domain) ==
    /\ scraper_pc = "idle"
    /\ fetch_calls < MaxUrlCalls
    /\ fetch_calls' = fetch_calls + 1
    /\ \E can_fetch \in BOOLEAN :
        LET wait_time == WaitTime(request_history, domain, clock)
        IN  IF ~can_fetch
            THEN UNCHANGED <<request_history, scraper_pc, pending>>
            ELSE IF wait_time > 0
            THEN /\ scraper_pc' = "sleeping"
                 /\ pending' = Some([domain |-> domain, current_time |-> clock,
                                     wake_at |-> clock + wait_time])
                 /\ UNCHANGED request_history
            ELSE /\ scraper_pc' = "limited"
                 /\ pending' = Some([domain |-> domain, current_time |-> clock,
                                     wake_at |-> clock])
                 /\ request_history' = Record(request_history, domain, clock)
    /\ UNCHANGED <<clock, request_starts, outsideScrape>>

\* asyncio.sleep(wait_time) is over; rate_limit records the time it read
\* before the sleep
SleepEnds ==
    /\ scraper_pc = "sleeping"
    /\ clock >= Val(pending).wake_at
    /\ request_history' = Record(request_history, Val(pending).domain,
                                 Val(pending).current_time)
    /\ scraper_pc' = "limited"
    /\ UNCHANGED <<clock, pending, request_starts, fetch_calls, outsideScrape>>

\* after rate_limit: a cache hit returns without a request, otherwise
\* self.session.get(url) starts the request
StartRequest ==
    /\ scraper_pc = "limited"
    /\ \E cached \in BOOLEAN :
          request_starts' =
              IF cached THEN request_starts
              ELSE [request_starts EXCEPT
                        ![Val(pending).domain] = Append(@, clock)]
    /\ scraper_pc' = "idle"
    /\ pending' = <<>>
    /\ UNCHANGED <<clock, request_history, fetch_calls, outsideScrape>>

NextScrape ==
    \/ Tick
    \/ \E domain \in Domains : CallFetchUrl(domain)
    \/ SleepEnds
    \/ StartRequest

SpecScrape == InitScrape /\ [][NextScrape]_vars

\* C28: any two consecutive requests to one domain start at least delay
\* apart
C28_RequestsDelayApart ==
    \A d \in Domains : \A i \in 1..(Len(request_starts[d]) - 1) :
        request_starts[d][i + 1] - request_starts[d][i] >= delay

(* ------------------- matching the hiring signals ---------------------- *)
\* ScrapingOrchestrator._process_hiring_signals, run again and again over
\* the hiring_signals collection; the faculty collection holds one member

limit == 20          \* HiringSignal.get_unprocessed(limit=20)
MaxOlder == 20       \* older signals that match no stored faculty
MaxMatching == 2     \* signals that name the stored faculty
MaxIndicators == 3   \* entries of the member's hiring_indicators

StoredMember == [id |-> "f1", name |-> "Ada Lovelace", university_name |-> "Mit"]

\* what _extract_faculty_info found in the post
MatchingSignal ==
    [faculty_name |-> Some("Ada Lovelace"), university_name |-> Some("Mit"),
     processed |-> FALSE, faculty_id |-> <<>>]

\* a university without a professor's name, or names the store lacks
UnmatchedSignals ==
    {[faculty_name |-> <<>>, university_name |-> Some("Stanford"),
      processed |-> FALSE, faculty_id |-> <<>>],
     [faculty_name |-> Some("Bob Stone"), university_name |-> Some("Cmu"),
      processed |-> FALSE, faculty_id |-> <<>>]}

\* does the faculty query of _match_signal_to_faculty find the member
MatchesMember(signal) ==
    /\ signal.faculty_name # <<>>
    /\ signal.university_name # <<>>
    /\ Val(signal.faculty_name) = StoredMember.name
    /\ Val(signal.university_name) = StoredMember.university_name

\* HiringSignal.get_unprocessed: the oldest `limit` unprocessed signals
RECURSIVE Unprocessed(_, _)
Unprocessed(signals, from) ==
    IF from > Len(signals) THEN <<>>
    ELSE IF signals[from].processed THEN Unprocessed(signals, from + 1)
    ELSE <<from>> \o Unprocessed(signals, from + 1)

get_unprocessed(signals) == Take(Unprocessed(signals, 1), limit)

InitSignals ==
    /\ OutsideSignalIdle
    /\ \E older \in 0..MaxOlder, matching \in 1..MaxMatching,
          unmatched \in UnmatchedSignals :
          hiring_signals = [i \in 1..(older + matching) |->
                               IF i <= older THEN unmatched ELSE MatchingSignal]
    /\ signal_batch = <<>>
    /\ signal_run_pc = "idle"
    /\ faculty_hiring = Some([hiring_status |-> "unknown",
                              hiring_indicators |-> 0])

\* signals = await HiringSignal.get_unprocessed(limit=20); a failed query
\* gives an empty list
StartProcessHiringSignals ==
    /\ signal_run_pc = "idle"
    /\ signal_run_pc' = "running"
    /\ \E ok \in BOOLEAN :
          signal_batch' = IF ok THEN get_unprocessed(hiring_signals) ELSE <<>>
    /\ UNCHANGED <<hiring_signals, faculty_hiring, outsideSignal>>

\* the faculty update of a hiring_announcement signal; the list of
\* indicators is followed up to MaxIndicators entries
UpdateFacultyHiring(faculty) ==
    Some([hiring_status |-> "hiring",
          hiring_indicators |->
              Min(Val(faculty).hiring_indicators + 1, MaxIndicators)])

\* the update of the signal document
MarkSignal(signals, i) ==
    [signals EXCEPT ![i] = [@ EXCEPT !.processed = TRUE,
                                     !.faculty_id = Some(StoredMember.id)]]

\* _match_signal_to_faculty for the next signal of the batch with every
\* store call succeeding
MatchSignalToFaculty ==
    /\ signal_run_pc = "running"
    /\ signal_batch # <<>>
    /\ signal_batch' = Tail(signal_batch)
    /\ IF MatchesMember(hiring_signals[Head(signal_batch)])
       THEN /\ faculty_hiring' = UpdateFacultyHiring(faculty_hiring)
            /\ hiring_signals' = MarkSignal(hiring_signals, Head(signal_batch))
       ELSE UNCHANGED <<hiring_signals, faculty_hiring>>
    /\ UNCHANGED <<signal_run_pc, outsideSignal>>

\* _match_signal_to_faculty when a store call fails: the faculty query
\* (nothing happens), the faculty update (the signal is still marked) or
\* the update that marks the signal (it stays unprocessed)
MatchSignalStoreFails ==
    /\ signal_run_pc = "running"
    /\ signal_batch # <<>>
    /\ MatchesMember(hiring_signals[Head(signal_batch)])
    /\ signal_batch' = Tail(signal_batch)
    /\ \E failed \in {"query", "update_faculty", "mark"} :
          /\ faculty_hiring' = IF failed = "mark"
                               THEN UpdateFacultyHiring(faculty_hiring)
                               ELSE faculty_hiring
          /\ hiring_signals' = IF failed = "update_faculty"
                               THEN MarkSignal(hiring_signals,
                                               Head(signal_batch))
                               ELSE hiring_signals
    /\ UNCHANGED <<signal_run_pc, outsideSignal>>

\* the loop over the batch is over
ProcessHiringSignalsReturns ==
    /\ signal_run_pc = "running"
    /\ signal_batch = <<>>
    /\ signal_run_pc' = "idle"
    /\ UNCHANGED <<hiring_signals, signal_batch, faculty_hiring,
                   outsideSignal>>

NextSignals ==
    \/ StartProcessHiringSignals
    \/ MatchSignalToFaculty
    \/ MatchSignalStoreFails
    \/ ProcessHiringSignalsReturns

SpecSignals == InitSignals /\ [][NextSignals]_vars

\* a run whose query of the unprocessed signals succeeds
StartWithBatch ==
    /\ StartProcessHiringSignals
    /\ signal_batch' = get_unprocessed(hiring_signals)

\* a signal that names the stored member gets through every store call
MatchStored ==
    /\ MatchSignalToFaculty
    /\ MatchesMember(hiring_signals[Head(signal_batch)])

\* the routine is run again and again, every run gets through its batch,
\* and the store does not fail for ever
SpecSignalsFair ==
    /\ SpecSignals
    /\ WF_vars(ProcessHiringSignalsReturns)
    /\ WF_vars(MatchSignalToFaculty)
    /\ SF_vars(StartWithBatch)
    /\ SF_vars(MatchStored)

MarkedProcessed(i) ==
    /\ hiring_signals[i].processed
    /\ hiring_signals[i].faculty_id = Some(StoredMember.id)

AllMatchingMarked ==
    \A i \in DOMAIN hiring_signals :
        MatchesMember(hiring_signals[i]) => MarkedProcessed(i)

\* C29: under repeated runs every stored signal that names a stored
\* faculty is eventually marked processed with that faculty's id
C29_MatchingSignalsEventuallyProcessed == <>AllMatchingMarked


(* ------------------- the LangGraph workflow --------------------------- *)

kw_faculty == <<"f","a","c","u","l","t","y">>  \* 'faculty'

kw_program == <<"p","r","o","g","r","a","m">>  \* 'program'

kw_research == <<"r","e","s","e","a","r","c","h">>  \* 'research'

\* first lines an LLM may answer the classification prompt with, next to
\* LLMReplies: 'faculty', 'Research question',
\* 'program_search, faculty_search', 'admissions'
MoreReplies ==
    << <<"f","a","c","u","l","t","y">>,
       <<"R","e","s","e","a","r","c","h"," ","q","u","e","s","t","i","o","n">>,
       <<"p","r","o","g","r","a","m","_","s","e","a","r","c","h",","," ","f","a","c","u","l","t","y","_","s","e","a","r","c","h">>,
       <<"a","d","m","i","s","s","i","o","n","s">>
    >>

WorkflowReplies == Range(LLMReplies) \cup Range(MoreReplies)

\* most matches a specialised agent returns
MaxMatches == 2

\* STEMAdmissionsWorkflow._route_query
_route_query(classification) ==
    IF Contains(kw_faculty, Lower(classification)) THEN faculty_search
    ELSE IF Contains(kw_program, Lower(classification)) THEN program_search
    ELSE IF Contains(kw_research, Lower(classification)) THEN research_analysis
    ELSE general_chat

\* the mapping add_conditional_edges gives the router's return values
ConditionalEdge(returned) ==
    IF returned = faculty_search THEN "faculty_search"
    ELSE IF returned = program_search THEN "program_search"
    ELSE IF returned = research_analysis THEN "research_analysis"
    ELSE "response_generator"

\* process_query builds the initial state; START leads to query_analyzer
InitWorkflow ==
    /\ OutsideWorkflowIdle
    /\ user_query \in Range(ScoreQueries)
    /\ query_classification = <<>>
    /\ next_action = <<>>
    /\ routed = <<>>
    /\ node = "START"
    /\ agent_type = <<>>
    /\ state_sources = 0
    /\ workflow_result = <<>>

\* _analyze_query stores what ChatAgent.classify_query returned
AnalyzeQuery ==
    /\ node = "START"
    /\ \E result \in {ClassifyFromContent(content) : content \in WorkflowReplies}
                     \cup {ClassifyFallback} :
          /\ query_classification' = result.classification
          /\ next_action' = result.next_action
    /\ node' = "query_analyzer"
    /\ UNCHANGED <<user_query, routed, agent_type, state_sources, workflow_result>>
    /\ UNCHANGED outsideWorkflow

\* the conditional edge after query_analyzer
RouteQuery ==
    /\ node = "query_analyzer"
    /\ routed' = <<_route_query(query_classification)>>
    /\ node' = ConditionalEdge(_route_query(query_classification))
    /\ UNCHANGED <<user_query, query_classification, next_action, agent_type,
                   state_sources, workflow_result>>
    /\ UNCHANGED outsideWorkflow

\* a specialised node: the agent returns matches and sources, or raises and
\* process_query answers with agent_type "error"
AgentNode(name, agent) ==
    /\ node = name
    /\ \/ \E n \in 0..MaxMatches :
            /\ state_sources' = state_sources + n
            /\ agent_type' = <<agent>>
            /\ node' = "response_generator"
            /\ UNCHANGED workflow_result
       \/ /\ node' = "END"
          /\ workflow_result' = <<"error">>
          /\ UNCHANGED <<state_sources, agent_type>>
    /\ UNCHANGED <<user_query, query_classification, next_action, routed>>
    /\ UNCHANGED outsideWorkflow

SearchFaculty == AgentNode("faculty_search", "faculty_agent")

SearchPrograms == AgentNode("program_search", "program_agent")

AnalyzeResearch == AgentNode("research_analysis", "research_agent")

\* _generate_response, then process_query returns result["agent_type"]
GenerateResponse ==
    /\ node = "response_generator"
    /\ node' = "END"
    /\ workflow_result' = IF agent_type = <<>> THEN <<"">> ELSE agent_type
    /\ UNCHANGED <<user_query, query_classification, next_action, routed,
                   agent_type, state_sources>>
    /\ UNCHANGED outsideWorkflow

NextWorkflow ==
    \/ AnalyzeQuery
    \/ RouteQuery
    \/ SearchFaculty
    \/ SearchPrograms
    \/ AnalyzeResearch
    \/ GenerateResponse

SpecWorkflow == InitWorkflow /\ [][NextWorkflow]_vars

\* C30: once the router has run, what it returned is the next_action that
\* classify_query computed for the query
C30_RoutedToNextAction == routed # <<>> => routed[1] = next_action

\* the LLM's first line is not one of the four labels and mentions faculty
C30_RoutedElsewhere ==
    /\ routed = <<faculty_search>>
    /\ next_action = general_chat

====
